---- MODULE Spec2Model ----
(***************************************************************************)
(* Model of the appointment reconciliation engine                          *)
(* (src/python/utils/appointments.py), of its persistence writer and of    *)
(* the client/evaluator relationship differ (src/python/utils/database.py, *)
(* src/python/utils/relationships.py).                                     *)
(*                                                                         *)
(* Conventions.  An optional Python value is a set with at most one        *)
(* element: None is {} and a present value v is {v}.  A timestamp is a     *)
(* number of seconds, a naive datetime; its date is the quotient by the    *)
(* seconds of a day.  A text that the code searches, strips or parses is a *)
(* sequence of one-character strings.                                      *)
(***************************************************************************)
EXTENDS Integers, Sequences, FiniteSets, TLC

VARIABLES
    \* ---- emr_appointment and emr_client_eval (the database)
    appts,            \* rows of emr_appointment
    links,            \* rows of emr_client_eval: <<clientId, evaluatorNpi>>
    \* ---- inputs of one appointment sync run
    csv,              \* rows of temp/input/clients-appointments.csv, file order
    gcal,             \* calendar id -> events the calendar service lists
    trusted_ids,      \* appointment_sync_data["trusted_appointment_ids"]
    ignored_ids,      \* appointment_sync_data["ignored_appointment_ids"]
    npi_cache,        \* get_all_evaluators_npi_map(): calendar id -> (optional) npi
    \* ---- state of one appointment sync run
    pc,               \* position of insert_appointments_with_gcal
    appointments_df,  \* the data frame (rows carry their index label idx)
    filtered,         \* the data frame as handed to batch_search_calendar_events
    results,          \* batch_search_calendar_events: idx -> matched event
    fetched,          \* calendars whose events were listed without an exception
    all_events,       \* events listed so far for the calendar being fetched
    pageIdx,          \* next page of the calendar being fetched (the page token)
    calIdx,           \* next calendar of the calendar list
    rowIdx,           \* next row of the insert loop
    time_mismatches,  \* SyncReporter.time_mismatches
    missing_in_gcal,  \* SyncReporter.missing_in_gcal
    missing_npis,     \* SyncReporter.missing_npis
    sent,             \* number of send_gmail calls
    writes,           \* put_appointment_in_db calls that committed, in order
    \* ---- inputs and state of one relationship run
    clients,          \* the clients data frame (a sequence of rows)
    evaluators,       \* the evaluators dict: npi -> profile
    force_ids,        \* force_client_ids ({} for the incremental mode)
    epc,              \* position of insert_by_matching_criteria
    existing_links,   \* in-memory map client id -> set of npis
    start_links,      \* emr_client_eval when the run started
    cIdx,             \* next row of the clients loop
    issued,           \* statements issued: client id -> [ins, del]
    db_error          \* whether a statement of the run raised

dbVars   == <<appts, links>>
inVars   == <<csv, gcal, trusted_ids, ignored_ids, npi_cache>>
runVars  == <<pc, appointments_df, filtered, results, fetched, all_events,
              pageIdx, calIdx, rowIdx,
              time_mismatches, missing_in_gcal, missing_npis, sent, writes>>
eligVars == <<clients, evaluators, force_ids, epc, existing_links, start_links,
              cIdx, issued, db_error>>
vars     == <<dbVars, inVars, runVars, eligVars>>

(***************************************************************************)
(* Optional values and small helpers                                       *)
(***************************************************************************)
None == {}

Some(v) == {v}

IsNone(o) == o = {}

The(o) == CHOOSE v \in o : TRUE

Abs(n) == IF n < 0 THEN -n ELSE n

Range(s) == {s[i] : i \in 1..Len(s)}

\* `sub in s` of Python strings, on sequences of characters
Contains(s, sub) ==
    \E i \in 0..(Len(s) - Len(sub)) :
        \A j \in 1..Len(sub) : s[i + j] = sub[j]

\* seconds of one day: datetime.date() of a timestamp is its quotient by it
DaySeconds == 86400

DateOf(t) == t \div DaySeconds

Digit(d) == CASE d = 0 -> "0" [] d = 1 -> "1" [] d = 2 -> "2" [] d = 3 -> "3"
              [] d = 4 -> "4" [] d = 5 -> "5" [] d = 6 -> "6" [] d = 7 -> "7"
              [] d = 8 -> "8" [] d = 9 -> "9"

\* str(client_id) of a non-negative integer: its decimal digits
RECURSIVE Str(_)
Str(n) == IF n < 10 THEN <<Digit(n)>> ELSE Str(n \div 10) \o <<Digit(n % 10)>>

(***************************************************************************)
(* Persistence writer: put_appointment_in_db                               *)
(***************************************************************************)
\* the row an INSERT stores when the key is new
InsertedRow(p) ==
    [id |-> p.id, clientId |-> p.clientId, evaluatorNpi |-> p.evaluatorNpi,
     startTime |-> p.startTime, endTime |-> p.endTime, daEval |-> p.daEval,
     asdAdhd |-> p.asdAdhd,
     cancelled |-> p.cancelled, locationKey |-> p.locationKey,
     calendarEventId |-> p.calendarEventId]

\* mutant: the column is overwritten like a core field
Sticky_Overwrite(new, old) == new

\* CASE WHEN VALUES(col) IS NOT NULL THEN VALUES(col) ELSE col END
Sticky(new, old) == IF ~IsNone(new) THEN new ELSE old

\* an update clause that leaves out clientId and cancelled
UpdatedRow_KeepsClient(r, p) ==
    [id |-> r.id, clientId |-> r.clientId, evaluatorNpi |-> p.evaluatorNpi,
     startTime |-> p.startTime, endTime |-> p.endTime,
     daEval |-> Sticky(p.daEval, r.daEval),
     asdAdhd |-> Sticky(p.asdAdhd, r.asdAdhd),
     cancelled |-> r.cancelled,
     locationKey |-> Sticky(p.locationKey, r.locationKey),
     calendarEventId |-> Sticky(p.calendarEventId, r.calendarEventId)]

\* the ON DUPLICATE KEY UPDATE clause
UpdatedRow(r, p) ==
    [id |-> r.id, clientId |-> p.clientId, evaluatorNpi |-> p.evaluatorNpi,
     startTime |-> p.startTime, endTime |-> p.endTime,
     daEval |-> Sticky(p.daEval, r.daEval),
     asdAdhd |-> Sticky(p.asdAdhd, r.asdAdhd),
     cancelled |-> p.cancelled,
     locationKey |-> Sticky(p.locationKey, r.locationKey),
     calendarEventId |-> Sticky(p.calendarEventId, r.calendarEventId)]

\* an INSERT IGNORE: a stored row is left as it is
put_appointment_in_db_InsertIgnore(tbl, p) ==
    IF \E r \in tbl : r.id = p.id THEN tbl ELSE tbl \cup {InsertedRow(p)}

\* a writer that replaces the table by the row it writes
put_appointment_in_db_ReplacesTable(tbl, p) ==
    IF \E r \in tbl : r.id = p.id
    THEN {UpdatedRow(r, p) : r \in {x \in tbl : x.id = p.id}}
    ELSE {InsertedRow(p)}

\* INSERT ... ON DUPLICATE KEY UPDATE on the primary key id
put_appointment_in_db(tbl, p) ==
    IF \E r \in tbl : r.id = p.id
    THEN {IF r.id = p.id THEN UpdatedRow(r, p) ELSE r : r \in tbl}
    ELSE tbl \cup {InsertedRow(p)}

(***************************************************************************)
(* Title parser: parse_location_and_type                                   *)
(***************************************************************************)
Upper == {"A","B","C","D","E","F","G","H","I","J","K","L","M","N","O","P",
          "Q","R","S","T","U","V","W","X","Y","Z"}

\* the index after the longest run of [A-Z] that starts at i
RECURSIVE RunEnd(_, _)
RunEnd(s, i) == IF i <= Len(s) /\ s[i] \in Upper THEN RunEnd(s, i + 1) ELSE i

\* whether \[([A-Z]+)-([A-Z]+)\] matches at position i of s
TagAt(s, i) ==
    /\ s[i] = "["
    /\ LET a == RunEnd(s, i + 1)
       IN /\ a > i + 1
          /\ a <= Len(s)
          /\ s[a] = "-"
          /\ LET b == RunEnd(s, a + 1)
             IN b > a + 1 /\ b <= Len(s) /\ s[b] = "]"

\* evaluation_type_map.get(code)
evaluation_type_map(code) ==
    CASE code = <<"E">>      -> Some("EVAL")
      [] code = <<"D">>      -> Some("DA")
      [] code = <<"D","E">>  -> Some("DAEVAL")
      [] OTHER               -> None

\* a parser that gives up on the location when the type code is unknown
parse_location_and_type_AllOrNothing(title) ==
    IF \E i \in 1..Len(title) : TagAt(title, i)
    THEN LET i   == CHOOSE k \in 1..Len(title) :
                        TagAt(title, k) /\ \A m \in 1..(k - 1) : ~TagAt(title, m)
             a   == RunEnd(title, i + 1)
             b   == RunEnd(title, a + 1)
             grp == SubSeq(title, i + 1, a - 1)
             loc == IF grp = <<"C","O","L","U","M","B","I","A">>
                    THEN <<"C","O","L">> ELSE grp
             typ == evaluation_type_map(SubSeq(title, a + 1, b - 1))
         IN IF IsNone(typ) THEN [location |-> None, type |-> None]
            ELSE [location |-> Some(loc), type |-> typ]
    ELSE IF Contains(title, <<"[","V","]">>)
         THEN [location |-> None, type |-> Some("DA")]
         ELSE [location |-> None, type |-> None]

\* lines 559-588
parse_location_and_type(title) ==
    IF \E i \in 1..Len(title) : TagAt(title, i)
    THEN LET i   == CHOOSE k \in 1..Len(title) :
                        TagAt(title, k) /\ \A m \in 1..(k - 1) : ~TagAt(title, m)
             a   == RunEnd(title, i + 1)
             b   == RunEnd(title, a + 1)
             grp == SubSeq(title, i + 1, a - 1)
             loc == IF grp = <<"C","O","L","U","M","B","I","A">>
                    THEN <<"C","O","L">> ELSE grp
         IN [location |-> Some(loc),
             type |-> evaluation_type_map(SubSeq(title, a + 1, b - 1))]
    ELSE IF Contains(title, <<"[","V","]">>)
         THEN [location |-> None, type |-> Some("DA")]
         ELSE [location |-> None, type |-> None]

(***************************************************************************)
(* Record filter: should_skip_appointment and the first loop of            *)
(* prepare_appointments_from_csv                                           *)
(***************************************************************************)
TEST_NAMES ==
    {<<"T","e","s","t","m","a","n"," ","T","e","s","t","s","o","n">>,
     <<"T","e","s","t","m","a","n"," ","T","e","s","t","s","o","n"," ","J","r",".">>,
     <<"J","o","h","n","n","y"," ","S","m","o","n","n","y">>,
     <<"J","o","h","n","n","y"," ","S","m","o","n","a","t","h","a","n">>,
     <<"T","e","s","t"," ","M","c","t","e","s","t">>,
     <<"B","a","r","b","a","r","a"," ","S","t","e","e","l","e">>}

Digits == {"0","1","2","3","4","5","6","7","8","9"}

IsDigit(c) == c \in Digits

NotDigitOrParen(c) == c \notin Digits \cup {"(", ")"}

\* str.strip() for the blank
RECURSIVE Strip(_)
Strip(s) ==
    IF s = <<>> THEN s
    ELSE IF Head(s) = " " THEN Strip(Tail(s))
    ELSE IF s[Len(s)] = " " THEN Strip(SubSeq(s, 1, Len(s) - 1))
    ELSE s

\* re.sub(r"[\d\(\)]", "", NAME).strip()
ClientName(name) == Strip(SelectSeq(name, NotDigitOrParen))

\* re.sub(r"\D", "", NAME)
CptString(name) == SelectSeq(name, IsDigit)

\* a skip test that lets cancelled rows through
should_skip_appointment_KeepsCancelled(app) ==
    \/ ClientName(app.NAME) \in TEST_NAMES
    \/ Contains(CptString(app.NAME), <<"9","6","1","3","0">>)

\* lines 138-144
should_skip_appointment(app) ==
    \/ ClientName(app.NAME) \in TEST_NAMES
    \/ Contains(CptString(app.NAME), <<"9","6","1","3","0">>)
    \/ ~IsNone(app.CANCELBYNAME)

\* mutant: the frame is sorted by STARTTIME alone
SortKeyLe_TimeOnly(a, b) == a.STARTTIME <= b.STARTTIME

\* sort_values(by=["CLIENT_ID", "STARTTIME"]): stable; the export writes
\* STARTTIME so that its text order is its time order
SortKeyLe(a, b) ==
    \/ a.CLIENT_ID < b.CLIENT_ID
    \/ a.CLIENT_ID = b.CLIENT_ID /\ a.STARTTIME <= b.STARTTIME

InsertSorted(s, r) ==
    LET n == Cardinality({i \in 1..Len(s) : SortKeyLe(s[i], r)})
        \* s is sorted: the rows not after r are its first n rows
    IN SubSeq(s, 1, n) \o <<r>> \o SubSeq(s, n + 1, Len(s))

RECURSIVE SortRows(_)
SortRows(s) ==
    IF s = <<>> THEN <<>>
    ELSE InsertSorted(SortRows(SubSeq(s, 1, Len(s) - 1)), s[Len(s)])

\* client_date_set: every row of the export, dropped later or not
ClientDateSet(df) == {<<df[i].CLIENT_ID, DateOf(df[i].STARTTIME)>> : i \in 1..Len(df)}

\* timedelta(days=182)
CooldownDays == 182

\* timedelta(weeks=4), in days
WindowDays == 28

\* One iteration of the first loop after the ignored-id test
FilterRowRules(app, last, dateset) ==
    IF should_skip_appointment(app) THEN [drop |-> TRUE, last |-> last]
    ELSE LET cid   == app.CLIENT_ID
             is9   == Contains(CptString(app.NAME), <<"9","0","0","0","0">>)
             prev  == IF cid \in DOMAIN last THEN Some(last[cid]) ELSE None
             cool  == /\ is9
                      /\ ~IsNone(prev)
                      /\ DateOf(app.STARTTIME) - DateOf(The(prev)) < CooldownDays
             last2 == IF is9 /\ ~cool
                      THEN [c \in DOMAIN last \cup {cid} |->
                               IF c = cid THEN app.STARTTIME ELSE last[c]]
                      ELSE last
         IN IF cool THEN [drop |-> TRUE, last |-> last]
            ELSE IF <<cid, DateOf(app.STARTTIME) - 1>> \in dateset
                 THEN [drop |-> TRUE, last |-> last2]
                 ELSE [drop |-> FALSE, last |-> last2]

\* mutant: the ignored ids are not consulted
FilterRow_NoIgnoreCheck(app, last, ignored, dateset) ==
    FilterRowRules(app, last, dateset)

\* One iteration of the first loop: whether the row joins indices_to_drop, and
\* last_90000_appointment_date after it.
FilterRow(app, last, ignored, dateset) ==
    IF app.APPOINTMENT_ID \in ignored THEN [drop |-> TRUE, last |-> last]
    ELSE FilterRowRules(app, last, dateset)

\* The first loop over the sorted frame from row i on: the positions dropped.
RECURSIVE FilterLoop(_, _, _, _, _)
FilterLoop(df, i, last, ignored, dateset) ==
    IF i > Len(df) THEN {}
    ELSE LET d == FilterRow(df[i], last, ignored, dateset)
         IN (IF d.drop THEN {i} ELSE {})
              \cup FilterLoop(df, i + 1, d.last, ignored, dateset)

\* drop(index=...).reset_index(drop=True): the kept rows, labelled 0, 1, ...
RECURSIVE Relabel(_, _)
Relabel(s, k) ==
    IF s = <<>> THEN <<>>
    ELSE <<[Head(s) EXCEPT !.idx = k]>> \o Relabel(Tail(s), k + 1)

WithColumns(app) ==
    [idx |-> 0, APPOINTMENT_ID |-> app.APPOINTMENT_ID, CLIENT_ID |-> app.CLIENT_ID,
     STARTTIME |-> app.STARTTIME, ENDTIME |-> app.ENDTIME, NAME |-> app.NAME,
     CANCELBYNAME |-> app.CANCELBYNAME, NPI |-> app.NPI,
     gcal_event_id |-> None, gcal_title |-> None, gcal_calendar_id |-> None]

InWindow(app, now) ==
    /\ app.STARTTIME >= now - WindowDays * DaySeconds
    /\ app.STARTTIME <= now + WindowDays * DaySeconds

\* Lines 305-381: the frame that goes to the calendar search.
RecordFilter(rows, ignored, now) ==
    LET sorted == SortRows(rows)
        drop   == FilterLoop(sorted, 1, << >>, ignored, ClientDateSet(sorted))
        keptAt == {i \in 1..Len(sorted) : i \notin drop}
        Kept(i) == i \in keptAt
        pos    == SelectSeq([i \in 1..Len(sorted) |-> i], Kept)
        kept   == Relabel([k \in 1..Len(pos) |-> WithColumns(sorted[pos[k]])], 0)
        Win(app) == InWindow(app, now)
    IN SelectSeq(kept, Win)

(***************************************************************************)
(* Calendar index builder and appointment matcher:                         *)
(* batch_search_calendar_events                                            *)
(***************************************************************************)
\* the calendar list of the service, in the order it lists them
CalendarList == <<"eval1@x", "eval2@x">>

\* 1 hour tolerance, in seconds
Tolerance == 3600

\* appointments_by_date: the order in which one calendar's pass visits the rows
\* (dates by first occurrence, rows of one date in frame order)
RECURSIVE SearchOrder(_)
SearchOrder(df) ==
    IF df = <<>> THEN <<>>
    ELSE LET d == DateOf(Head(df).STARTTIME)
             Same(r)  == DateOf(r.STARTTIME) = d
             Other(r) == DateOf(r.STARTTIME) # d
         IN SelectSeq(df, Same) \o SearchOrder(SelectSeq(df, Other))

\* mutant: a day bucket holds only the first event of the day
DayEvents_FirstOnly(events, date_key) ==
    LET OnDay(e) == ~IsNone(e.start) /\ DateOf(The(e.start)) = date_key
        day == SelectSeq(events, OnDay)
    IN IF day = <<>> THEN <<>> ELSE <<Head(day)>>

\* events_by_date[date_key]: the listed events that have a start on that date, in
\* listing order
DayEvents(events, date_key) ==
    LET OnDay(e) == ~IsNone(e.start) /\ DateOf(The(e.start)) = date_key
    IN SelectSeq(events, OnDay)

\* the first event of the day whose description contains str(client_id): the
\* inner loop stops at it, whatever its time
FirstCandidate(day_events, client_id) ==
    LET hits == {k \in 1..Len(day_events) :
                    Contains(day_events[k].description, Str(client_id))}
    IN IF hits = {} THEN None
       ELSE Some(day_events[CHOOSE k \in hits : \A m \in hits : k <= m])

\* mutant: the tolerance excludes its bound
WithinTolerance_Strict(event_dt, start_time) == Abs(event_dt - start_time) < Tolerance

\* mutant: the tolerance is two hours
WithinTolerance_Loose(event_dt, start_time) == Abs(event_dt - start_time) <= 2 * Tolerance

WithinTolerance(event_dt, start_time) == Abs(event_dt - start_time) <= Tolerance

\* event.get("summary", "No title")
TitleOf(e) == IF IsNone(e.summary) THEN <<"N","o"," ","t","i","t","l","e">>
              ELSE The(e.summary)

\* what one calendar's pass does for one row not yet in results:
\* "match", "mismatch" or "none", with the event that decided it
Verdict(app, events) ==
    LET cand == FirstCandidate(DayEvents(events, DateOf(app.STARTTIME)),
                               app.CLIENT_ID)
    IN IF IsNone(cand) THEN [kind |-> "none"]
       ELSE IF WithinTolerance(The(The(cand).start), app.STARTTIME)
            THEN [kind |-> "match", event |-> The(cand)]
            ELSE [kind |-> "mismatch", event |-> The(cand)]

\* mutant: a later calendar's match replaces an earlier one
PassResults_Overwrite(df, events, calendar_id, res) ==
    LET new == {i \in 1..Len(df) : Verdict(df[i], events).kind = "match"}
        At(k) == CHOOSE i \in 1..Len(df) : df[i].idx = k
    IN [k \in DOMAIN res \cup {df[i].idx : i \in new} |->
          IF k \notin {df[i].idx : i \in new} THEN res[k]
          ELSE LET e == Verdict(df[At(k)], events).event
               IN [event_id |-> e.id, title |-> TitleOf(e),
                   calendar_id |-> calendar_id]]

\* results after one calendar's pass
PassResults(df, events, calendar_id, res) ==
    LET new == {i \in 1..Len(df) :
                   /\ df[i].idx \notin DOMAIN res
                   /\ Verdict(df[i], events).kind = "match"}
        At(k) == CHOOSE i \in 1..Len(df) : df[i].idx = k
    IN [k \in DOMAIN res \cup {df[i].idx : i \in new} |->
          IF k \in DOMAIN res THEN res[k]
          ELSE LET e == Verdict(df[At(k)], events).event
               IN [event_id |-> e.id, title |-> TitleOf(e),
                   calendar_id |-> calendar_id]]

\* reporter.log_time_mismatch entries of one calendar's pass, in visiting order
RECURSIVE PassMismatches(_, _, _)
PassMismatches(order, events, res) ==
    IF order = <<>> THEN <<>>
    ELSE LET app == Head(order)
             v   == Verdict(app, events)
         IN (IF app.idx \notin DOMAIN res /\ v.kind = "mismatch"
             THEN <<[appointment_idx |-> app.idx,
                     appointment_id |-> app.APPOINTMENT_ID,
                     client_name |-> ClientName(app.NAME),
                     client_id |-> app.CLIENT_ID,
                     found_time |-> The(v.event.start),
                     expected_time |-> app.STARTTIME]>>
             ELSE <<>>)
            \o PassMismatches(Tail(order), events, res)

\* the pages of one calendar concatenated (all_events.extend(events))
RECURSIVE Flatten(_)
Flatten(pages) == IF pages = <<>> THEN <<>> ELSE Head(pages) \o Flatten(Tail(pages))

(***************************************************************************)
(* Trust/override resolver (second loop of prepare_appointments_from_csv), *)
(* sync reporter and the insert loop of insert_appointments_with_gcal      *)
(***************************************************************************)
\* get_npi_to_name_map(): the evaluators of the database
npi_map == (111 :> "Eval One") @@ (222 :> "Eval Two")

\* npi_map.get(npi_int, f"Unknown NPI ({raw_npi})")
EvaluatorName(raw_npi) ==
    IF ~IsNone(raw_npi) /\ The(raw_npi) \in DOMAIN npi_map
    THEN npi_map[The(raw_npi)] ELSE "Unknown NPI"

\* mismatched_indices
MismatchedIndices(mism) == {mism[i].appointment_idx : i \in 1..Len(mism)}

\* mutant: the trusted ids are not consulted
Keeps_IgnoreTrust(app, res, mism, trusted) == app.idx \in DOMAIN res

\* mutant: a row that no calendar has is kept
Keeps_MissKept(app, res, mism, trusted) ==
    \/ app.idx \in DOMAIN res
    \/ app.idx \notin MismatchedIndices(mism)
    \/ app.APPOINTMENT_ID \in trusted

\* whether the second loop keeps the row
Keeps(app, res, mism, trusted) ==
    IF app.idx \in DOMAIN res THEN TRUE
    ELSE IF app.idx \in MismatchedIndices(mism)
         THEN app.APPOINTMENT_ID \in trusted
         ELSE app.APPOINTMENT_ID \in trusted

\* the row with the columns the second loop sets
Applied(app, res) ==
    IF app.idx \in DOMAIN res
    THEN [app EXCEPT !.gcal_event_id = Some(res[app.idx].event_id),
                     !.gcal_title = Some(res[app.idx].title),
                     !.gcal_calendar_id = Some(res[app.idx].calendar_id)]
    ELSE app

\* the frame the second loop returns (drop, then reset_index)
ResolvedFrame(df, res, mism, trusted) ==
    LET Keep(app) == Keeps(app, res, mism, trusted)
    IN Relabel([i \in 1..Len(SelectSeq(df, Keep)) |->
                   Applied(SelectSeq(df, Keep)[i], res)], 0)

\* a second loop that reports a missing row only when it drops it
RECURSIVE MissingEntries_UntrustedOnly(_, _, _)
MissingEntries_UntrustedOnly(df, res, mism) ==
    IF df = <<>> THEN <<>>
    ELSE LET app == Head(df)
         IN (IF app.idx \notin DOMAIN res
                 /\ app.idx \notin MismatchedIndices(mism)
                 /\ app.APPOINTMENT_ID \notin trusted_ids
             THEN <<[name |-> ClientName(app.NAME),
                     client_id |-> app.CLIENT_ID,
                     start_time |-> app.STARTTIME,
                     evaluator_name |-> EvaluatorName(app.NPI),
                     appointment_id |-> app.APPOINTMENT_ID]>>
             ELSE <<>>)
            \o MissingEntries_UntrustedOnly(Tail(df), res, mism)

\* reporter.log_missing_in_gcal entries of the second loop, in frame order
RECURSIVE MissingEntries(_, _, _)
MissingEntries(df, res, mism) ==
    IF df = <<>> THEN <<>>
    ELSE LET app == Head(df)
         IN (IF app.idx \notin DOMAIN res
                 /\ app.idx \notin MismatchedIndices(mism)
             THEN <<[name |-> ClientName(app.NAME),
                     client_id |-> app.CLIENT_ID,
                     start_time |-> app.STARTTIME,
                     evaluator_name |-> EvaluatorName(app.NPI),
                     appointment_id |-> app.APPOINTMENT_ID]>>
             ELSE <<>>)
            \o MissingEntries(Tail(df), res, mism)

\* SyncReporter.has_errors
has_errors(mism, missing, npis) == mism # <<>> \/ missing # <<>> \/ npis # <<>>

\* npi_cache.get(calendar_id)
CacheGet(cache, calendar_id) ==
    IF calendar_id \in DOMAIN cache THEN Some(cache[calendar_id]) ELSE None

\* mutant: a row without a calendar is skipped, trusted or not
InsertDecision_NoFallback(app, trusted, cache) ==
    IF ~IsNone(app.gcal_calendar_id) /\ The(app.gcal_calendar_id) \in DOMAIN cache
    THEN [kind |-> "write",
          params |-> [id |-> app.APPOINTMENT_ID, clientId |-> app.CLIENT_ID,
                      startTime |-> app.STARTTIME, endTime |-> app.ENDTIME,
                      asdAdhd |-> None, cancelled |-> FALSE,
                      calendarEventId |-> app.gcal_event_id,
                      evaluatorNpi |-> cache[The(app.gcal_calendar_id)],
                      locationKey |-> None, daEval |-> None]]
    ELSE [kind |-> "skip"]

\* an insert loop that falls back on the row's own NPI when the calendar id
\* of a trusted row has no evaluator
InsertDecision_FallbackOnLookup(app, trusted, cache) ==
    LET base == [id |-> app.APPOINTMENT_ID, clientId |-> app.CLIENT_ID,
                 startTime |-> app.STARTTIME, endTime |-> app.ENDTIME,
                 asdAdhd |-> None,
                 cancelled |-> ~IsNone(app.CANCELBYNAME),
                 calendarEventId |-> app.gcal_event_id]
        own  == [kind |-> "write",
                 params |-> base @@ [evaluatorNpi |-> The(app.NPI),
                                     locationKey |-> None, daEval |-> None]]
    IN IF ~IsNone(app.gcal_calendar_id)
       THEN LET npi == CacheGet(cache, The(app.gcal_calendar_id))
                loc == parse_location_and_type(
                           IF IsNone(app.gcal_title) THEN <<>>
                           ELSE The(app.gcal_title))
            IN IF IsNone(npi)
               THEN IF app.APPOINTMENT_ID \in trusted /\ ~IsNone(app.NPI)
                    THEN own
                    ELSE [kind |-> "lookup", calendar_id |-> The(app.gcal_calendar_id)]
               ELSE [kind |-> "write",
                     params |-> base @@ [evaluatorNpi |-> The(npi),
                                         locationKey |-> loc.location,
                                         daEval |-> loc.type]]
       ELSE IF app.APPOINTMENT_ID \in trusted
            THEN IF IsNone(app.NPI) \/ The(app.NPI) = 0
                 THEN [kind |-> "skip"]
                 ELSE own
            ELSE [kind |-> "skip"]

\* One iteration of the insert loop, up to the call put_appointment_in_db:
\* "lookup" (log_missing_npi, continue), "skip" (continue) or "write".
InsertDecision(app, trusted, cache) ==
    LET base == [id |-> app.APPOINTMENT_ID, clientId |-> app.CLIENT_ID,
                 startTime |-> app.STARTTIME, endTime |-> app.ENDTIME,
                 asdAdhd |-> None,
                 cancelled |-> ~IsNone(app.CANCELBYNAME),
                 calendarEventId |-> app.gcal_event_id]
    IN IF ~IsNone(app.gcal_calendar_id)
       THEN LET npi == CacheGet(cache, The(app.gcal_calendar_id))
                loc == parse_location_and_type(
                           IF IsNone(app.gcal_title) THEN <<>>
                           ELSE The(app.gcal_title))
            IN IF IsNone(npi)
               THEN [kind |-> "lookup", calendar_id |-> The(app.gcal_calendar_id)]
               ELSE [kind |-> "write",
                     params |-> base @@ [evaluatorNpi |-> The(npi),
                                         locationKey |-> loc.location,
                                         daEval |-> loc.type]]
       ELSE IF app.APPOINTMENT_ID \in trusted
            THEN IF IsNone(app.NPI) \/ The(app.NPI) = 0
                 THEN [kind |-> "skip"]
                 ELSE [kind |-> "write",
                       params |-> base @@ [evaluatorNpi |-> The(app.NPI),
                                           locationKey |-> None,
                                           daEval |-> None]]
            ELSE [kind |-> "skip"]

(***************************************************************************)
(* Inputs of the model                                                     *)
(***************************************************************************)
MaxRows == 2

MaxEvents == 2

\* events per page of the calendar service
PageSize == 1

Hour == 60 * 60

\* datetime.now() of the run: noon of day 100
Now == 100 * DaySeconds + 12 * Hour

D0 == 100 * DaySeconds

IdList == <<"A1", "A2", "A3", "A4">>

NameJo == <<"5","5"," ","J","o"," ","D"," ","9","0","7","9","1">>

NameAl == <<"7"," ","A","l"," ","B"," ","9","0","7","9","1">>

\* rows of the export, without their APPOINTMENT_ID
SyncRowPool ==
    {[CLIENT_ID |-> 55, STARTTIME |-> D0 + 9 * Hour, ENDTIME |-> D0 + 10 * Hour,
      NAME |-> NameJo, CANCELBYNAME |-> None, NPI |-> Some(111)],
     [CLIENT_ID |-> 55, STARTTIME |-> D0 + 9 * Hour, ENDTIME |-> D0 + 10 * Hour,
      NAME |-> NameJo, CANCELBYNAME |-> None, NPI |-> None],
     [CLIENT_ID |-> 7, STARTTIME |-> D0 + DaySeconds + 9 * Hour,
      ENDTIME |-> D0 + DaySeconds + 10 * Hour,
      NAME |-> NameAl, CANCELBYNAME |-> None, NPI |-> Some(222)],
     [CLIENT_ID |-> 7, STARTTIME |-> D0 + DaySeconds + 9 * Hour,
      ENDTIME |-> D0 + DaySeconds + 10 * Hour,
      NAME |-> NameAl, CANCELBYNAME |-> Some("Staff"), NPI |-> Some(222)]}

WithId(t, i) ==
    [APPOINTMENT_ID |-> IdList[i], CLIENT_ID |-> t.CLIENT_ID,
     STARTTIME |-> t.STARTTIME, ENDTIME |-> t.ENDTIME, NAME |-> t.NAME,
     CANCELBYNAME |-> t.CANCELBYNAME, NPI |-> t.NPI]

\* exports of at most MaxRows rows over a pool, row i with the id IdList[i]
Exports(pool) ==
    UNION {{[i \in 1..n |-> WithId(f[i], i)] : f \in [1..n -> pool]} : n \in 0..MaxRows}

\* events of the calendar service
EventPool ==
    {[id |-> "e1", start |-> Some(D0 + 9 * Hour + 600),
      description |-> <<"I","D"," ","5","5">>,
      summary |-> Some(<<"[","C","O","L","-","E","]"," ","J","o","h","n"," ","D",".">>)],
     [id |-> "e2", start |-> Some(D0 + 7 * Hour + 1800),
      description |-> <<"5","5">>,
      summary |-> Some(<<"[","V","]"," ","J","o">>)],
     [id |-> "e3", start |-> Some(D0 + 10 * Hour),
      description |-> <<"1","5","5">>,
      summary |-> None],
     [id |-> "e4", start |-> Some(D0 + DaySeconds + 10 * Hour + 1),
      description |-> <<"7">>,
      summary |-> Some(<<"[","N","Y","C","-","D","E","]">>)],
     [id |-> "e5", start |-> Some(D0 + DaySeconds + 8 * Hour),
      description |-> <<"7"," ","A","l">>,
      summary |-> Some(<<"x"," ","[","C","O","L","U","M","B","I","A","-","D","]">>)]}

\* orderBy="startTime"
RECURSIVE SortByStart(_)
SortByStart(S) ==
    IF S = {} THEN <<>>
    ELSE LET Key(x) == IF IsNone(x.start) THEN 0 ELSE The(x.start)
             e == CHOOSE x \in S : \A y \in S : Key(x) <= Key(y)
         IN <<e>> \o SortByStart(S \ {e})

\* the listing of a calendar cut into pages; an empty calendar has one empty page
RECURSIVE Pages(_)
Pages(events) ==
    IF Len(events) <= PageSize THEN <<events>>
    ELSE <<SubSeq(events, 1, PageSize)>>
            \o Pages(SubSeq(events, PageSize + 1, Len(events)))

Calendars == Range(CalendarList)

\* every placement of at most MaxEvents events of the pool on the calendars
Listings(pool) ==
    UNION {{[c \in Calendars |-> Pages(SortByStart({e \in S : f[e] = c}))] :
               f \in [S -> Calendars]} :
           S \in {T \in SUBSET pool : Cardinality(T) <= MaxEvents}}

IdleElig ==
    /\ clients = <<>>
    /\ evaluators = << >>
    /\ force_ids = {}
    /\ epc = "idle"
    /\ existing_links = << >>
    /\ start_links = {}
    /\ cIdx = 1
    /\ issued = << >>
    /\ db_error = FALSE

StartOfRun ==
    /\ pc = "start"
    /\ appointments_df = <<>>
    /\ filtered = <<>>
    /\ results = << >>
    /\ fetched = {}
    /\ all_events = <<>>
    /\ pageIdx = 1
    /\ calIdx = 1
    /\ rowIdx = 1
    /\ time_mismatches = <<>>
    /\ missing_in_gcal = <<>>
    /\ missing_npis = <<>>
    /\ sent = 0
    /\ writes = <<>>

(***************************************************************************)
(* The appointment sync run: insert_appointments_with_gcal                 *)
(***************************************************************************)
InitSync ==
    /\ appts = {}
    /\ links = {}
    /\ csv \in Exports(SyncRowPool)
    /\ gcal \in Listings(EventPool)
    /\ trusted_ids \in SUBSET {"A1", "A2"}
    /\ ignored_ids \in SUBSET {"A1"}
    /\ npi_cache \in {("eval1@x" :> 111) @@ ("eval2@x" :> 222), ("eval1@x" :> 111)}
    /\ StartOfRun
    /\ IdleElig

\* lines 305-390: read, sort and filter the export; an empty frame is returned
\* at once, without a calendar search
Prepare ==
    /\ pc = "start"
    /\ LET df == RecordFilter(csv, ignored_ids, Now)
       IN /\ appointments_df' = df
          /\ filtered' = df
          /\ pc' = IF df = <<>> THEN "prepared" ELSE "fetch"
    /\ UNCHANGED <<results, fetched, all_events, pageIdx, calIdx, rowIdx,
                   time_mismatches, missing_in_gcal, missing_npis, sent, writes>>
    /\ UNCHANGED <<dbVars, inVars, eligVars>>

\* the loop over the calendars moves to the next one, or ends
NextCalendar ==
    /\ calIdx' = calIdx + 1
    /\ all_events' = <<>>
    /\ pageIdx' = 1
    /\ pc' = IF calIdx = Len(CalendarList) THEN "apply" ELSE "fetch"

\* lines 200-219: one events().list(...).execute() of the paging loop
FetchPage ==
    /\ pc = "fetch"
    /\ LET c == CalendarList[calIdx]
       IN /\ all_events' = all_events \o gcal[c][pageIdx]
          /\ IF pageIdx < Len(gcal[c])
             THEN /\ pageIdx' = pageIdx + 1
                  /\ UNCHANGED <<pc, fetched>>
             ELSE /\ pc' = "match"
                  /\ fetched' = fetched \cup {c}
                  /\ UNCHANGED pageIdx
    /\ UNCHANGED <<appointments_df, filtered, results, calIdx, rowIdx,
                   time_mismatches, missing_in_gcal, missing_npis, sent, writes>>
    /\ UNCHANGED <<dbVars, inVars, eligVars>>

\* a handler that matches the rows against the pages fetched before the error
FetchFails_MatchesPartial ==
    /\ pc = "fetch"
    /\ IF all_events = <<>>
       THEN UNCHANGED <<results, time_mismatches>>
       ELSE /\ results' = PassResults(appointments_df, all_events,
                                      CalendarList[calIdx], results)
            /\ time_mismatches' = time_mismatches
                   \o PassMismatches(SearchOrder(appointments_df), all_events, results)
    /\ NextCalendar
    /\ UNCHANGED <<appointments_df, filtered, fetched, rowIdx,
                   missing_in_gcal, missing_npis, sent, writes>>
    /\ UNCHANGED <<dbVars, inVars, eligVars>>

\* lines 220-224: the listing of a page raises; the calendar is skipped
FetchFails ==
    /\ pc = "fetch"
    /\ NextCalendar
    /\ UNCHANGED <<appointments_df, filtered, results, fetched, rowIdx,
                   time_mismatches, missing_in_gcal, missing_npis, sent, writes>>
    /\ UNCHANGED <<dbVars, inVars, eligVars>>

\* lines 226-290: bucket the calendar's events by day and match the rows
MatchCalendar ==
    /\ pc = "match"
    /\ IF all_events = <<>>
       THEN UNCHANGED <<results, time_mismatches>>
       ELSE /\ results' = PassResults(appointments_df, all_events,
                                      CalendarList[calIdx], results)
            /\ time_mismatches' = time_mismatches
                   \o PassMismatches(SearchOrder(appointments_df), all_events, results)
    /\ NextCalendar
    /\ UNCHANGED <<appointments_df, filtered, fetched, rowIdx,
                   missing_in_gcal, missing_npis, sent, writes>>
    /\ UNCHANGED <<dbVars, inVars, eligVars>>

\* lines 396-459: apply the search results, the trusted ids and the drops
ApplyResults ==
    /\ pc = "apply"
    /\ appointments_df' =
           ResolvedFrame(appointments_df, results, time_mismatches, trusted_ids)
    /\ missing_in_gcal' = missing_in_gcal
           \o MissingEntries(appointments_df, results, time_mismatches)
    /\ pc' = "prepared"
    /\ UNCHANGED <<filtered, results, fetched, all_events, pageIdx, calIdx, rowIdx,
                   time_mismatches, missing_npis, sent, writes>>
    /\ UNCHANGED <<dbVars, inVars, eligVars>>

\* lines 486-488: nothing to insert, return
ReturnEmpty ==
    /\ pc = "prepared"
    /\ appointments_df = <<>>
    /\ pc' = "done"
    /\ UNCHANGED <<appointments_df, filtered, results, fetched, all_events, pageIdx,
                   calIdx, rowIdx, time_mismatches, missing_in_gcal, missing_npis,
                   sent, writes>>
    /\ UNCHANGED <<dbVars, inVars, eligVars>>

\* lines 493-554: one iteration of the insert loop whose statement, if any,
\* commits
InsertRow ==
    /\ pc = "prepared"
    /\ rowIdx <= Len(appointments_df)
    /\ LET app == appointments_df[rowIdx]
           d   == InsertDecision(app, trusted_ids, npi_cache)
       IN /\ missing_npis' =
                 IF d.kind = "lookup"
                 THEN Append(missing_npis, [calendar_id |-> d.calendar_id,
                                            appointment_id |-> app.APPOINTMENT_ID])
                 ELSE missing_npis
          /\ IF d.kind = "write"
             THEN /\ appts' = put_appointment_in_db(appts, d.params)
                  /\ writes' = Append(writes, d.params)
             ELSE UNCHANGED <<appts, writes>>
    /\ rowIdx' = rowIdx + 1
    /\ UNCHANGED <<pc, appointments_df, filtered, results, fetched, all_events,
                   pageIdx, calIdx, time_mismatches, missing_in_gcal, sent>>
    /\ UNCHANGED <<links, inVars, eligVars>>

\* lines 378-380 of database.py: the statement raises; nothing catches it, so
\* insert_appointments_with_gcal ends there
WriteFails ==
    /\ pc = "prepared"
    /\ rowIdx <= Len(appointments_df)
    /\ InsertDecision(appointments_df[rowIdx], trusted_ids, npi_cache).kind = "write"
    /\ pc' = "crashed"
    /\ UNCHANGED <<appointments_df, filtered, results, fetched, all_events, pageIdx,
                   calIdx, rowIdx, time_mismatches, missing_in_gcal, missing_npis,
                   sent, writes>>
    /\ UNCHANGED <<dbVars, inVars, eligVars>>

\* line 556 and SyncReporter.send_report
SendReport ==
    /\ pc = "prepared"
    /\ appointments_df # <<>>
    /\ rowIdx > Len(appointments_df)
    /\ sent' = IF has_errors(time_mismatches, missing_in_gcal, missing_npis)
               THEN sent + 1 ELSE sent
    /\ pc' = "done"
    /\ UNCHANGED <<appointments_df, filtered, results, fetched, all_events, pageIdx,
                   calIdx, rowIdx, time_mismatches, missing_in_gcal, missing_npis,
                   writes>>
    /\ UNCHANGED <<dbVars, inVars, eligVars>>

NextSync ==
    \/ Prepare
    \/ FetchPage
    \/ FetchFails
    \/ MatchCalendar
    \/ ApplyResults
    \/ ReturnEmpty
    \/ InsertRow
    \/ WriteFails
    \/ SendReport

SpecSync == InitSync /\ [][NextSync]_vars

(***************************************************************************)
(* Claims about the sync run                                               *)
(***************************************************************************)
\* the run has left prepare_appointments_from_csv
AfterPrepare == pc \in {"prepared", "done", "crashed"}

\* every calendar of the list has been searched
AfterSearch == pc \in {"apply"} \/ (AfterPrepare /\ filtered # <<>>)

WrittenIds == {writes[i].id : i \in 1..Len(writes)}

\* the events of calendar c that have a start on the day of time t, in listing order
BucketOf(c, t) ==
    LET OnDay(e) == e.start # {} /\ (The(e.start) \div 86400) = (t \div 86400)
    IN SelectSeq(Flatten(gcal[c]), OnDay)

\* event e carries the client id and starts at most one hour from time t
Acceptable(e, client_id, t) ==
    /\ Contains(e.description, Str(client_id))
    /\ The(e.start) - t <= 3600
    /\ t - The(e.start) <= 3600

\* C4 (as claimed): when a run has returned, one notification was sent if a time
\* mismatch, a missing-in-calendar entry or a lookup failure was recorded, and
\* none otherwise (stated for the runs in which no calendar listing and no
\* database statement raised).
C4_OneNotificationIffErrors ==
    (pc = "done" /\ (filtered = <<>> \/ fetched = Calendars)) =>
        sent = IF time_mismatches # <<>> \/ missing_in_gcal # <<>> \/ missing_npis # <<>>
               THEN 1 ELSE 0

\* C5 (as claimed): a row that is not trusted and for which a time mismatch was
\* reported is dropped: it is not in the frame prepare returns and no appointment
\* is written for its id.
C5_MismatchReportedRowDropped ==
    AfterPrepare =>
        \A i \in 1..Len(time_mismatches) :
            time_mismatches[i].appointment_id \notin trusted_ids =>
                /\ \A k \in 1..Len(appointments_df) :
                       appointments_df[k].APPOINTMENT_ID
                           # time_mismatches[i].appointment_id
                /\ time_mismatches[i].appointment_id \notin WrittenIds

\* C6 (as claimed): a surviving row has an exact match as soon as some fetched
\* calendar holds, in the row's day bucket, an event with the client id at most
\* one hour from the row's start.
C6_AnyAcceptableEventMatches ==
    AfterSearch =>
        \A i \in 1..Len(filtered) :
            (\E c \in fetched : \E k \in 1..Len(BucketOf(c, filtered[i].STARTTIME)) :
                 Acceptable(BucketOf(c, filtered[i].STARTTIME)[k],
                            filtered[i].CLIENT_ID, filtered[i].STARTTIME))
            => filtered[i].idx \in DOMAIN results

\* C6 (amended): a surviving row has an exact match as soon as, in some fetched
\* calendar, the first event of the row's day bucket that carries the client id
\* starts at most one hour from the row's start.
C6_FirstCandidateWithinToleranceMatches ==
    AfterSearch =>
        \A i \in 1..Len(filtered) :
            (\E c \in fetched : \E k \in 1..Len(BucketOf(c, filtered[i].STARTTIME)) :
                 LET b == BucketOf(c, filtered[i].STARTTIME)
                 IN /\ Acceptable(b[k], filtered[i].CLIENT_ID, filtered[i].STARTTIME)
                    /\ \A j \in 1..(k - 1) :
                           ~Contains(b[j].description, Str(filtered[i].CLIENT_ID)))
            => filtered[i].idx \in DOMAIN results

\* C6 witness: the search is over and a row matched an event exactly one hour
\* from its start, in a description that holds the client id as a substring.
C6_Witness ==
    /\ AfterSearch
    /\ \E i \in 1..Len(filtered) :
           /\ filtered[i].idx \in DOMAIN results
           /\ results[filtered[i].idx].event_id = "e3"

\* what the title convention gives for the titles of the calendar service:
\* "[COL-E] John D." is (COL, EVAL), "[NYC-DE]" is (NYC, DAEVAL), a bare "[V]" is
\* (null, DA), "[COLUMBIA-D]" is (COL, DA), no title is (null, null)
TitleMeaning(e) ==
    CASE e.id = "e1" -> [location |-> {<<"C","O","L">>}, type |-> {"EVAL"}]
      [] e.id = "e2" -> [location |-> {}, type |-> {"DA"}]
      [] e.id = "e3" -> [location |-> {}, type |-> {}]
      [] e.id = "e4" -> [location |-> {<<"N","Y","C">>}, type |-> {"DAEVAL"}]
      [] e.id = "e5" -> [location |-> {<<"C","O","L">>}, type |-> {"DA"}]

\* the write w carries event e of calendar c
WriteComesFrom(w, c, e) ==
    /\ w.calendarEventId = {e.id}
    /\ e.start # {}
    /\ (The(e.start) \div 86400) = (w.startTime \div 86400)
    /\ Acceptable(e, w.clientId, w.startTime)
    /\ c \in DOMAIN npi_cache
    /\ w.evaluatorNpi = npi_cache[c]
    /\ w.locationKey = TitleMeaning(e).location
    /\ w.daEval = TitleMeaning(e).type

\* C7: every appointment written with a calendar event id carries an event of
\* the row's day in some calendar, whose description holds the row's client id,
\* whose start is at most 3600 seconds from the row's start, with the evaluator
\* mapped from that calendar and the location and visit type of the event's title.
C7_WrittenEventIsAcceptable ==
    \A i \in 1..Len(writes) :
        writes[i].calendarEventId # {} =>
            \E c \in Calendars : \E k \in 1..Len(Flatten(gcal[c])) :
                WriteComesFrom(writes[i], c, Flatten(gcal[c])[k])

\* C7 witness: the 09:00 row of client 55 was written with the 09:10 event titled
\* "[COL-E] John D.": location COL, visit type EVAL.
C7_Witness ==
    \E i \in 1..Len(writes) :
        /\ writes[i].calendarEventId = {"e1"}
        /\ writes[i].clientId = 55
        /\ writes[i].locationKey = {<<"C","O","L">>}
        /\ writes[i].daEval = {"EVAL"}

\* the row's outcome is an exact match / a time mismatch / a total miss
IsMatched(r) == r.idx \in DOMAIN results

IsMismatch(r) ==
    /\ ~IsMatched(r)
    /\ \E i \in 1..Len(time_mismatches) : time_mismatches[i].appointment_idx = r.idx

IsMiss(r) == ~IsMatched(r) /\ ~IsMismatch(r)

InFrame(id) ==
    \E k \in 1..Len(appointments_df) : appointments_df[k].APPOINTMENT_ID = id

\* C8: a row that passed the record filter and is trusted and not ignored is in
\* the frame prepare_appointments_from_csv returns, whatever its outcome; a row
\* whose id is trusted and ignored is not.
C8_TrustedRowsSurvive ==
    AfterPrepare =>
        /\ \A i \in 1..Len(filtered) :
               (/\ filtered[i].APPOINTMENT_ID \in trusted_ids
                /\ filtered[i].APPOINTMENT_ID \notin ignored_ids)
               => InFrame(filtered[i].APPOINTMENT_ID)
        /\ \A i \in 1..Len(csv) :
               (/\ csv[i].APPOINTMENT_ID \in trusted_ids
                /\ csv[i].APPOINTMENT_ID \in ignored_ids)
               => ~InFrame(csv[i].APPOINTMENT_ID)

\* C8 witness: prepare returned a frame that holds a trusted row with a time
\* mismatch and a trusted row that no calendar has.
C8_Witness ==
    /\ AfterPrepare
    /\ \E i, j \in 1..Len(filtered) :
           /\ filtered[i].APPOINTMENT_ID \in trusted_ids
           /\ filtered[j].APPOINTMENT_ID \in trusted_ids
           /\ IsMismatch(filtered[i])
           /\ IsMiss(filtered[j])
           /\ InFrame(filtered[i].APPOINTMENT_ID)
           /\ InFrame(filtered[j].APPOINTMENT_ID)

\* C9: a row whose id is ignored never reaches the calendar search: it is not in
\* the frame, nothing is written for it and no report list names it.
C9_IgnoredRowsLeaveNoTrace ==
    \A id \in ignored_ids :
        /\ \A i \in 1..Len(filtered) : filtered[i].APPOINTMENT_ID # id
        /\ ~InFrame(id)
        /\ id \notin WrittenIds
        /\ \A r \in appts : r.id # id
        /\ \A i \in 1..Len(time_mismatches) : time_mismatches[i].appointment_id # id
        /\ \A i \in 1..Len(missing_in_gcal) : missing_in_gcal[i].appointment_id # id
        /\ \A i \in 1..Len(missing_npis) : missing_npis[i].appointment_id # id

\* C9 witness: a run ended in which an ignored and trusted row of client 55 was
\* in the export, the calendars were searched for another row, and they hold an
\* event of client 55 on the ignored row's day.
C9_Witness ==
    /\ pc = "done"
    /\ fetched = Calendars
    /\ \E i \in 1..Len(csv) :
           /\ csv[i].APPOINTMENT_ID \in ignored_ids \cap trusted_ids
           /\ csv[i].CLIENT_ID = 55
           /\ \E c \in Calendars :
                  \E k \in 1..Len(BucketOf(c, csv[i].STARTTIME)) :
                      Contains(BucketOf(c, csv[i].STARTTIME)[k].description, Str(55))
    /\ writes # <<>>

\* C10: when a run has ended, a trusted (and not ignored) row whose outcome is a
\* time mismatch or a total miss was written once with its own NPI and with null
\* location, visit type and calendar event id if it has an NPI, and was not
\* written if it has none.
C10_TrustedFallback ==
    pc = "done" =>
        \A i \in 1..Len(filtered) :
            (filtered[i].APPOINTMENT_ID \in trusted_ids /\ ~IsMatched(filtered[i]))
            => LET mine == {k \in 1..Len(writes) :
                               writes[k].id = filtered[i].APPOINTMENT_ID}
               IN IF filtered[i].NPI = {}
                  THEN mine = {}
                  ELSE /\ Cardinality(mine) = 1
                       /\ \A k \in mine :
                              /\ {writes[k].evaluatorNpi} = filtered[i].NPI
                              /\ writes[k].locationKey = {}
                              /\ writes[k].daEval = {}
                              /\ writes[k].calendarEventId = {}

\* C10 witness: a run ended with a trusted time-mismatch row written with its
\* own NPI and a trusted row without NPI, missing in the calendars, not written.
C10_Witness ==
    /\ pc = "done"
    /\ \E i, j \in 1..Len(filtered) :
           /\ filtered[i].APPOINTMENT_ID \in trusted_ids
           /\ filtered[j].APPOINTMENT_ID \in trusted_ids
           /\ IsMismatch(filtered[i])
           /\ filtered[i].NPI # {}
           /\ filtered[i].APPOINTMENT_ID \in WrittenIds
           /\ ~IsMatched(filtered[j])
           /\ filtered[j].NPI = {}
           /\ filtered[j].APPOINTMENT_ID \notin WrittenIds

(***************************************************************************)
(* put_appointment_in_db called any number of times, with any arguments    *)
(***************************************************************************)
MaxUpserts == 3

\* (location, visit type, calendar event id) of a call
StickyPool ==
    {<<{}, {}, {}>>,
     <<{<<"C","O","L">>}, {"EVAL"}, {"e1"}>>,
     <<{<<"N","Y","C">>}, {"DA"}, {"e2"}>>,
     <<{}, {"DAEVAL"}, {}>>,
     <<{<<"C","O","L">>}, {}, {}>>,
     <<{}, {}, {"e2"}>>}

UpsertPool ==
    {[id |-> i, clientId |-> 55, evaluatorNpi |-> n, startTime |-> D0 + 9 * Hour,
      endTime |-> D0 + 10 * Hour, daEval |-> t[2], asdAdhd |-> {},
      cancelled |-> FALSE, locationKey |-> t[1], calendarEventId |-> t[3]] :
        i \in {"A1", "A2"}, n \in {111, 222}, t \in StickyPool}
    \cup {[id |-> "A1", clientId |-> 7, evaluatorNpi |-> 222,
            startTime |-> D0 + DaySeconds + 9 * Hour,
            endTime |-> D0 + DaySeconds + 10 * Hour,
            daEval |-> {}, asdAdhd |-> {}, cancelled |-> TRUE,
            locationKey |-> {}, calendarEventId |-> {}],
           [id |-> "A2", clientId |-> 7, evaluatorNpi |-> 111,
            startTime |-> D0, endTime |-> D0 + Hour,
            daEval |-> {"DA"}, asdAdhd |-> {}, cancelled |-> TRUE,
            locationKey |-> {<<"N","Y","C">>}, calendarEventId |-> {"e2"}]}

InitUpsert ==
    /\ appts = {}
    /\ links = {}
    /\ csv = <<>>
    /\ gcal = [c \in Calendars |-> <<<<>>>>]
    /\ trusted_ids = {}
    /\ ignored_ids = {}
    /\ npi_cache = << >>
    /\ StartOfRun
    /\ IdleElig

\* one call of put_appointment_in_db that commits
Upsert ==
    /\ Len(writes) < MaxUpserts
    /\ \E p \in UpsertPool :
           /\ appts' = put_appointment_in_db(appts, p)
           /\ writes' = Append(writes, p)
    /\ UNCHANGED <<pc, appointments_df, filtered, results, fetched, all_events,
                   pageIdx, calIdx, rowIdx, time_mismatches, missing_in_gcal,
                   missing_npis, sent>>
    /\ UNCHANGED <<links, inVars, eligVars>>

NextUpsert == Upsert

SpecUpsert == InitUpsert /\ [][NextUpsert]_vars

\* the calls made so far for id that supplied a value for the column
Supplied(id, col) == {k \in 1..Len(writes) : writes[k].id = id /\ writes[k][col] # {}}

\* the most recent non-null value supplied for the column of id, null if none was
LastSupplied(id, col) ==
    IF Supplied(id, col) = {} THEN {}
    ELSE writes[CHOOSE k \in Supplied(id, col) :
                    \A m \in Supplied(id, col) : m <= k][col]

\* C3: after any sequence of upserts, the stored location, visit type and
\* calendar event id of an appointment are the most recent non-null values
\* supplied for it; an upsert that supplies null leaves the stored value.
C3_StickyFieldsKeepLastNonNull ==
    /\ \A r \in appts :
           /\ r.locationKey = LastSupplied(r.id, "locationKey")
           /\ r.daEval = LastSupplied(r.id, "daEval")
           /\ r.calendarEventId = LastSupplied(r.id, "calendarEventId")
    /\ \A k \in 1..Len(writes) : \E r \in appts : r.id = writes[k].id

\* C3 witness: location COL was upserted for A1, then location null, and the
\* stored location of A1 is COL.
C3_Witness ==
    /\ Len(writes) >= 2
    /\ writes[1].id = "A1" /\ writes[1].locationKey = {<<"C","O","L">>}
    /\ writes[2].id = "A1" /\ writes[2].locationKey = {}
    /\ \E r \in appts : r.id = "A1" /\ r.locationKey = {<<"C","O","L">>}

(***************************************************************************)
(* Eligibility matcher: utils/relationships.py                             *)
(***************************************************************************)
\* texts of the eligibility matcher, as sequences of characters
S_BCBS == <<"B","C","B","S">>

S_ATC == <<"A","T","C">>

S_BLUE_CROSS == <<"B","l","u","e"," ","C","r","o","s","s">>

S_ATC_PAREN == <<"(","a","t","c",")">>

S_UHC_PAREN == <<"(","u","h","c",")">>

S_UNITED_OPTUM == <<"U","n","i","t","e","d","_","O","p","t","u","m">>

S_NONE == <<"N","o","n","e">>

S_UNKNOWN == <<"u","n","k","n","o","w","n">>

S_NA == <<"n","/","a">>

S_NO == <<"n","o">>

UpperSeq == <<"A","B","C","D","E","F","G","H","I","J","K","L","M","N","O","P",
              "Q","R","S","T","U","V","W","X","Y","Z">>

LowerSeq == <<"a","b","c","d","e","f","g","h","i","j","k","l","m","n","o","p",
              "q","r","s","t","u","v","w","x","y","z">>

LowerChar(c) ==
    IF c \in Upper THEN LowerSeq[CHOOSE i \in 1..26 : UpperSeq[i] = c] ELSE c

\* str.lower()
LowerStr(s) == [i \in 1..Len(s) |-> LowerChar(s[i])]

NotBlank(c) == c # " "

\* "".join(s.split())
Squeeze(s) == SelectSeq(s, NotBlank)

\* s.split(sep): the parts between the separators
RECURSIVE SplitOn(_, _)
SplitOn(s, sep) ==
    IF \A i \in 1..Len(s) : s[i] # sep THEN <<s>>
    ELSE LET k == CHOOSE i \in 1..Len(s) :
                     s[i] = sep /\ \A j \in 1..(i - 1) : s[j] # sep
         IN <<SubSeq(s, 1, k - 1)>> \o SplitOn(SubSeq(s, k + 1, Len(s)), sep)

\* get_insurance_mappings(): alias or short name -> short name, in dict order
insurance_mappings ==
    <<[k |-> S_BCBS, v |-> S_BCBS],
      [k |-> S_ATC, v |-> S_ATC],
      [k |-> S_BLUE_CROSS, v |-> S_BCBS]>>

\* standardized_lookup.get(key): the last entry of the dict comprehension wins
StandardizedLookup(mappings, key) ==
    LET hits == {i \in 1..Len(mappings) : Squeeze(LowerStr(mappings[i].k)) = key}
    IN IF hits = {} THEN None
       ELSE Some(mappings[CHOOSE i \in hits : \A j \in hits : j <= i].v)

_normalize_insurance_name(name, mappings) ==
    LET n1 == IF Contains(LowerStr(name), S_ATC_PAREN) THEN S_ATC
              ELSE IF Contains(LowerStr(name), S_UHC_PAREN) THEN S_UNITED_OPTUM
              ELSE name
        hit == StandardizedLookup(mappings, Squeeze(LowerStr(n1)))
    IN IF ~IsNone(hit) THEN The(hit) ELSE n1

\* str(raw_name) of an optional text
StrOf(o) == IF IsNone(o) THEN S_NONE ELSE The(o)

\* raw_insurances_to_check
RawInsurances(client) ==
    LET sec == client.SECONDARY_INSURANCE_COMPANYNAME
    IN <<StrOf(client.INSURANCE_COMPANYNAME)>>
       \o (IF IsNone(sec) THEN <<>>
           ELSE IF The(sec).isList THEN The(sec).items
           ELSE LET parts == SplitOn(The(sec).text, ",")
                IN [i \in 1..Len(parts) |-> Strip(parts[i])])

\* standardized_client_insurances
StandardizedInsurances(client, mappings) ==
    {n \in {_normalize_insurance_name(RawInsurances(client)[i], mappings) :
                i \in 1..Len(RawInsurances(client))} : n # <<>>}

\* evaluator_data.get(insurance) is truthy: an accepted insurance, or another
\* column of the evaluator row that holds a truthy value
TruthyKey(evaluator_data, key) ==
    key \in evaluator_data.accepts \cup evaluator_data.columns

match_by_insurance(client, evals, mappings) ==
    IF client.POLICY_PRIVATEPAY = 1 THEN DOMAIN evals
    ELSE {npi \in DOMAIN evals :
             \E ins \in StandardizedInsurances(client, mappings) :
                 TruthyKey(evals[npi], ins)}

\* datetime.now() as a date
Today == [y |-> 2026, m |-> 11, d |-> 1]

\* (month, day) < (month, day)
MonthDayLt(a, b) == a.m < b.m \/ (a.m = b.m /\ a.d < b.d)

ClientAge(dob) == Today.y - dob.y - (IF MonthDayLt(Today, dob) THEN 1 ELSE 0)

\* client_address.split(" ")[-1]
LastToken(s) == LET parts == SplitOn(s, " ") IN parts[Len(parts)]

UnknownDistricts == {S_UNKNOWN, S_NA, S_NO}

\* client_age > 20
AdultAge == 20

\* datetime.strptime(client_dob, "%Y-%m-%d") raises ValueError: the district and
\* the address are texts, the district is not an unknown one, and DOB is a
\* text in another format
StrptimeRaises(client) ==
    /\ ~IsNone(client.SCHOOL_DISTRICT)
    /\ LowerStr(The(client.SCHOOL_DISTRICT)) \notin UnknownDistricts
    /\ ~IsNone(client.ADDRESS)
    /\ ~IsNone(client.DOB)
    /\ The(client.DOB).isStr
    /\ ~The(client.DOB).iso

match_by_school_district(client, evals) ==
    IF \/ IsNone(client.SCHOOL_DISTRICT)
       \/ LowerStr(The(client.SCHOOL_DISTRICT)) \in UnknownDistricts
       \/ IsNone(client.ADDRESS)
    THEN DOMAIN evals
    ELSE IF /\ ~IsNone(client.DOB)
            /\ The(client.DOB).isStr
            /\ ClientAge(The(client.DOB)) > AdultAge
         THEN DOMAIN evals
         ELSE LET district == Strip(LowerStr(The(client.SCHOOL_DISTRICT)))
                  zip      == IF The(client.ADDRESS) = <<>> THEN None
                              ELSE Some(LastToken(The(client.ADDRESS)))
              IN {npi \in DOMAIN evals :
                     /\ \A i \in 1..Len(evals[npi].blockedSchoolDistricts) :
                            district # Strip(LowerStr(evals[npi].blockedSchoolDistricts[i]))
                     /\ \A i \in 1..Len(evals[npi].blockedZipCodes) :
                            zip # Some(evals[npi].blockedZipCodes[i])}

(***************************************************************************)
(* Relationship differ: insert_by_matching_criteria_incremental            *)
(***************************************************************************)
\* the value of a decimal digit
DigitVal(c) == CHOOSE d \in 0..9 : Digit(d) = c

\* the integer a decimal text is stored as in an integer column
RECURSIVE ParseInt(_)
ParseInt(s) ==
    IF Len(s) = 0 THEN 0
    ELSE 10 * ParseInt(SubSeq(s, 1, Len(s) - 1)) + DigitVal(s[Len(s)])

\* dict.get(key, set())
DictGet(d, k) == IF k \in DOMAIN d THEN d[k] ELSE {}

\* _get_existing_client_eval_links: client id text -> set of npi texts
_get_existing_client_eval_links(tbl) ==
    [cid \in {Str(l[1]) : l \in tbl} |->
        {Str(l[2]) : l \in {m \in tbl : Str(m[1]) = cid}}]

\* _delete_client_eval_links: DELETE ... WHERE clientId = .. AND evaluatorNpi IN ..
_delete_client_eval_links(tbl, client_id, npis) ==
    {l \in tbl : ~(l[1] = ParseInt(client_id) /\ l[2] \in {ParseInt(n) : n \in npis})}

\* _insert_client_eval_links: one INSERT ... ON DUPLICATE KEY UPDATE per npi
_insert_client_eval_links(tbl, client_id, npis) ==
    tbl \cup {<<ParseInt(client_id), ParseInt(n)>> : n \in npis}

\* str(get_column(client, "CLIENT_ID"))
ClientIdText(client) ==
    IF IsNone(client.CLIENT_ID) THEN S_NONE ELSE Str(The(client.CLIENT_ID))

S_NAN == <<"n","a","n">>

\* not client_id or client_id == "nan" or client_id == "None"
InvalidId(client_id) == client_id = <<>> \/ client_id = S_NAN \/ client_id = S_NONE

\* current_should_be: district-eligible and insurance-eligible, as texts
current_should_be(client, evals, mappings) ==
    {Str(npi) : npi \in match_by_school_district(client, evals)
                          \cap match_by_insurance(client, evals, mappings)}

\* a differ that deletes every existing link and inserts the whole desired set
Delta_FullReplace(should_be, exists) ==
    [to_add |-> should_be, to_remove |-> exists]

\* a differ that never removes a link
Delta_NoRemove(should_be, exists) ==
    [to_add |-> should_be \ exists, to_remove |-> {}]

\* lines 608-609: to_add and to_remove
Delta(should_be, exists) ==
    [to_add |-> should_be \ exists, to_remove |-> exists \ should_be]

(***************************************************************************)
(* Inputs of the relationship run                                          *)
(***************************************************************************)
\* texts of the relationship inputs
S_COLLETON_SP == <<" ","C","o","l","l","e","t","o","n"," ">>

S_COLLETON_UP == <<"C","O","L","L","E","T","O","N">>

S_UNKNOWN_CAP == <<"U","n","k","n","o","w","n">>

S_DORCHESTER == <<"D","o","r","c","h","e","s","t","e","r">>

S_ADDR_29401 == <<"1"," ","M","a","i","n"," ","S","t"," ","2","9","4","0","1">>

S_ADDR_29488 == <<"5"," ","O","a","k"," ","2","9","4","8","8">>

S_29488 == <<"2","9","4","8","8">>

S_BLUE_CROSS_UP == <<"B","L","U","E"," "," ","C","R","O","S","S">>

S_AETNA_ATC == <<"A","e","t","n","a"," ","(","A","T","C",")">>

S_SECONDARY == <<"H","u","m","a","n","a"," ",","," ","B","C","B","S">>

S_NPI == <<"n","p","i">>

S_EMAIL == <<"e","m","a","i","l">>

MaxClients == 2

NoSecondary == None

ClientPool ==
    {[CLIENT_ID |-> Some(55), SCHOOL_DISTRICT |-> Some(S_COLLETON_SP),
      ADDRESS |-> Some(S_ADDR_29401), DOB |-> Some([isStr |-> TRUE, iso |-> TRUE, y |-> 2015, m |-> 3, d |-> 9]),
      POLICY_PRIVATEPAY |-> 0, INSURANCE_COMPANYNAME |-> Some(S_BLUE_CROSS_UP),
      SECONDARY_INSURANCE_COMPANYNAME |-> NoSecondary],
     [CLIENT_ID |-> Some(55), SCHOOL_DISTRICT |-> Some(S_COLLETON_SP),
      ADDRESS |-> Some(S_ADDR_29488), DOB |-> Some([isStr |-> TRUE, iso |-> TRUE, y |-> 2000, m |-> 12, d |-> 24]),
      POLICY_PRIVATEPAY |-> 0, INSURANCE_COMPANYNAME |-> None,
      SECONDARY_INSURANCE_COMPANYNAME |-> NoSecondary],
     [CLIENT_ID |-> Some(7), SCHOOL_DISTRICT |-> Some(S_UNKNOWN_CAP),
      ADDRESS |-> Some(S_ADDR_29488), DOB |-> None,
      POLICY_PRIVATEPAY |-> 0, INSURANCE_COMPANYNAME |-> Some(S_AETNA_ATC),
      SECONDARY_INSURANCE_COMPANYNAME |->
          Some([isList |-> FALSE, text |-> S_SECONDARY, items |-> <<>>])],
     [CLIENT_ID |-> Some(12), SCHOOL_DISTRICT |-> Some(S_DORCHESTER),
      ADDRESS |-> Some(S_ADDR_29488), DOB |-> Some([isStr |-> FALSE, iso |-> TRUE, y |-> 1990, m |-> 1, d |-> 1]),
      POLICY_PRIVATEPAY |-> 1, INSURANCE_COMPANYNAME |-> None,
      SECONDARY_INSURANCE_COMPANYNAME |->
          Some([isList |-> TRUE, text |-> <<>>, items |-> <<S_BCBS>>])],
     [CLIENT_ID |-> Some(13), SCHOOL_DISTRICT |-> Some(S_DORCHESTER),
      ADDRESS |-> Some(S_ADDR_29401),
      DOB |-> Some([isStr |-> TRUE, iso |-> FALSE, y |-> 2015, m |-> 3, d |-> 9]),
      POLICY_PRIVATEPAY |-> 1, INSURANCE_COMPANYNAME |-> None,
      SECONDARY_INSURANCE_COMPANYNAME |-> NoSecondary],
     [CLIENT_ID |-> None, SCHOOL_DISTRICT |-> None,
      ADDRESS |-> None, DOB |-> None,
      POLICY_PRIVATEPAY |-> 1, INSURANCE_COMPANYNAME |-> None,
      SECONDARY_INSURANCE_COMPANYNAME |-> NoSecondary]}

\* data frames of at most MaxClients rows, one row per client id
ClientFrames(pool) ==
    UNION {{f \in [1..n -> pool] :
               \A i, j \in 1..n : i # j => f[i].CLIENT_ID # f[j].CLIENT_ID} :
           n \in 0..MaxClients}

\* columns of an evaluator row that hold a truthy value
EvaluatorColumns == {S_NPI, S_EMAIL}

\* get_evaluators_with_blocked_locations(): npi -> profile
EvaluatorDict ==
    (111 :> [blockedSchoolDistricts |-> <<S_COLLETON_UP>>, blockedZipCodes |-> <<>>,
             accepts |-> {S_BCBS}, columns |-> EvaluatorColumns])
    @@ (222 :> [blockedSchoolDistricts |-> <<>>, blockedZipCodes |-> <<S_29488>>,
                accepts |-> {S_BCBS, S_ATC}, columns |-> EvaluatorColumns])
    @@ (333 :> [blockedSchoolDistricts |-> <<>>, blockedZipCodes |-> <<>>,
                accepts |-> {}, columns |-> EvaluatorColumns])

\* rows emr_client_eval may hold before a run
LinkPool ==
    {<<55, 111>>, <<55, 222>>, <<12, 111>>, <<12, 222>>, <<9, 222>>}

IdleSync ==
    /\ appts = {}
    /\ csv = <<>>
    /\ gcal = [c \in Calendars |-> <<<<>>>>]
    /\ trusted_ids = {}
    /\ ignored_ids = {}
    /\ npi_cache = << >>
    /\ StartOfRun

(***************************************************************************)
(* The relationship run: insert_by_matching_criteria, incremental mode     *)
(***************************************************************************)
InitElig ==
    /\ IdleSync
    /\ clients \in ClientFrames(ClientPool)
    /\ evaluators = EvaluatorDict
    /\ links \in SUBSET LinkPool
    /\ force_ids = {}
    /\ epc = "start"
    /\ existing_links = << >>
    /\ start_links = links
    /\ cIdx = 1
    /\ issued = <<>>
    /\ db_error = FALSE

\* line 573: the existing links are read into memory
LoadLinks ==
    /\ epc = "start"
    /\ force_ids = {}
    /\ existing_links' = _get_existing_client_eval_links(links)
    /\ epc' = "mappings"
    /\ UNCHANGED <<clients, evaluators, force_ids, start_links, cIdx, issued, db_error>>
    /\ UNCHANGED <<dbVars, inVars, runVars>>

\* lines 474-477: the read fails, the error is logged and the map stays empty
LoadLinksFails ==
    /\ epc = "start"
    /\ force_ids = {}
    /\ existing_links' = << >>
    /\ db_error' = TRUE
    /\ epc' = "mappings"
    /\ UNCHANGED <<clients, evaluators, force_ids, start_links, cIdx, issued>>
    /\ UNCHANGED <<dbVars, inVars, runVars>>

\* line 574: the insurance mappings are read
LoadMappings ==
    /\ epc = "mappings"
    /\ epc' = "loop"
    /\ UNCHANGED <<clients, evaluators, force_ids, existing_links, start_links,
                   cIdx, issued, db_error>>
    /\ UNCHANGED <<dbVars, inVars, runVars>>

\* get_insurance_mappings raises: the run ends before any client is processed
LoadMappingsFails ==
    /\ epc = "mappings"
    /\ epc' = "crashed"
    /\ db_error' = TRUE
    /\ UNCHANGED <<clients, evaluators, force_ids, existing_links, start_links,
                   cIdx, issued>>
    /\ UNCHANGED <<dbVars, inVars, runVars>>

\* lines 584-588: a row without a valid id is skipped
SkipInvalidClient ==
    /\ epc = "loop"
    /\ cIdx <= Len(clients)
    /\ InvalidId(ClientIdText(clients[cIdx]))
    /\ cIdx' = cIdx + 1
    /\ UNCHANGED <<clients, evaluators, force_ids, epc, existing_links, start_links,
                   issued, db_error>>
    /\ UNCHANGED <<dbVars, inVars, runVars>>

\* the statement log entry of one client
LogEntry(client_id, should_be, exists, dels, ins) ==
    [client |-> client_id, should_be |-> should_be, exists |-> exists,
     deletes |-> dels, inserts |-> ins]

\* lines 596-617: one client, every statement succeeds
ProcessClient ==
    /\ epc = "loop"
    /\ cIdx <= Len(clients)
    /\ ~StrptimeRaises(clients[cIdx])
    /\ LET client_id == ClientIdText(clients[cIdx])
           should_be == current_should_be(clients[cIdx], evaluators, insurance_mappings)
           exists    == DictGet(existing_links, client_id)
           delta     == Delta(should_be, exists)
       IN /\ ~InvalidId(client_id)
          /\ links' = _insert_client_eval_links(
                          _delete_client_eval_links(links, client_id, delta.to_remove),
                          client_id, delta.to_add)
          /\ existing_links' =
                 IF delta.to_add # {} \/ delta.to_remove # {}
                 THEN [k \in DOMAIN existing_links \cup {client_id} |->
                          IF k = client_id THEN should_be ELSE existing_links[k]]
                 ELSE existing_links
          /\ issued' = Append(issued, LogEntry(client_id, should_be, exists,
                                               delta.to_remove, delta.to_add))
    /\ cIdx' = cIdx + 1
    /\ UNCHANGED <<clients, evaluators, force_ids, epc, start_links, db_error>>
    /\ UNCHANGED <<appts, inVars, runVars>>

\* lines 501-503: the DELETE raises; it is rolled back and logged, and the
\* run goes on with the inserts and the in-memory update
ProcessClientDeleteFails ==
    /\ epc = "loop"
    /\ cIdx <= Len(clients)
    /\ ~StrptimeRaises(clients[cIdx])
    /\ LET client_id == ClientIdText(clients[cIdx])
           should_be == current_should_be(clients[cIdx], evaluators, insurance_mappings)
           exists    == DictGet(existing_links, client_id)
           delta     == Delta(should_be, exists)
       IN /\ ~InvalidId(client_id)
          /\ delta.to_remove # {}
          /\ links' = _insert_client_eval_links(links, client_id, delta.to_add)
          /\ existing_links' =
                 [k \in DOMAIN existing_links \cup {client_id} |->
                     IF k = client_id THEN should_be ELSE existing_links[k]]
          /\ issued' = Append(issued, LogEntry(client_id, should_be, exists,
                                               delta.to_remove, delta.to_add))
    /\ db_error' = TRUE
    /\ cIdx' = cIdx + 1
    /\ UNCHANGED <<clients, evaluators, force_ids, epc, start_links>>
    /\ UNCHANGED <<appts, inVars, runVars>>

\* lines 559-561: an INSERT raises; nothing catches it, the run ends with
\* the inserts committed so far
ProcessClientInsertFails ==
    /\ epc = "loop"
    /\ cIdx <= Len(clients)
    /\ ~StrptimeRaises(clients[cIdx])
    /\ LET client_id == ClientIdText(clients[cIdx])
           should_be == current_should_be(clients[cIdx], evaluators, insurance_mappings)
           exists    == DictGet(existing_links, client_id)
           delta     == Delta(should_be, exists)
       IN /\ ~InvalidId(client_id)
          /\ delta.to_add # {}
          /\ \E done \in SUBSET delta.to_add :
                 /\ done # delta.to_add
                 /\ links' = _insert_client_eval_links(
                                 _delete_client_eval_links(links, client_id, delta.to_remove),
                                 client_id, done)
                 /\ issued' = Append(issued, LogEntry(client_id, should_be, exists,
                                                      delta.to_remove, done))
    /\ db_error' = TRUE
    /\ epc' = "crashed"
    /\ UNCHANGED <<clients, evaluators, force_ids, existing_links, start_links, cIdx>>
    /\ UNCHANGED <<appts, inVars, runVars>>

\* line 596: match_by_school_district raises ValueError on the client's DOB;
\* nothing catches it, the run ends before any statement for this client
ProcessClientMatchRaises ==
    /\ epc = "loop"
    /\ cIdx <= Len(clients)
    /\ ~InvalidId(ClientIdText(clients[cIdx]))
    /\ StrptimeRaises(clients[cIdx])
    /\ epc' = "crashed"
    /\ UNCHANGED <<clients, evaluators, force_ids, existing_links, start_links,
                   cIdx, issued, db_error>>
    /\ UNCHANGED <<dbVars, inVars, runVars>>

\* lines 619-621: the loop is over
FinishElig ==
    /\ epc = "loop"
    /\ cIdx > Len(clients)
    /\ epc' = "done"
    /\ UNCHANGED <<clients, evaluators, force_ids, existing_links, start_links,
                   cIdx, issued, db_error>>
    /\ UNCHANGED <<dbVars, inVars, runVars>>

NextElig ==
    \/ LoadLinks
    \/ LoadLinksFails
    \/ LoadMappings
    \/ LoadMappingsFails
    \/ SkipInvalidClient
    \/ ProcessClient
    \/ ProcessClientDeleteFails
    \/ ProcessClientInsertFails
    \/ ProcessClientMatchRaises
    \/ FinishElig

SpecElig == InitElig /\ [][NextElig]_vars

(***************************************************************************)
(* Properties of the relationship run                                      *)
(***************************************************************************)
\* the evaluators a client is linked to in a table
LinkedNpis(tbl, id) == {l[2] : l \in {m \in tbl : m[1] = id}}

\* the eligible set of a data frame row: district-eligible and insurance-eligible
EligibleNpis(client) ==
    match_by_school_district(client, evaluators)
        \cap match_by_insurance(client, evaluators, insurance_mappings)

ValidRows == {i \in 1..Len(clients) : ~InvalidId(ClientIdText(clients[i]))}

\* C1: when an incremental run has ended and no database statement raised,
\* every client of the input with a valid id is linked in emr_client_eval to
\* exactly the evaluators that are district-eligible and insurance-eligible
\* for it, whatever the table held before the run.
C1_LinksEqualEligibleSet ==
    (epc = "done" /\ ~db_error) =>
        \A i \in ValidRows :
            LinkedNpis(links, The(clients[i].CLIENT_ID)) = EligibleNpis(clients[i])

\* a finished run without error that had to add a link for one client and to
\* remove a link of a client, and left the links of an absent client alone
C1_Witness ==
    /\ epc = "done"
    /\ ~db_error
    /\ \E i \in ValidRows :
           LET id == The(clients[i].CLIENT_ID)
           IN /\ EligibleNpis(clients[i]) \ LinkedNpis(start_links, id) # {}
              /\ LinkedNpis(start_links, id) \ EligibleNpis(clients[i]) # {}
              /\ LinkedNpis(links, id) = EligibleNpis(clients[i])
    /\ <<9, 222>> \in links

\* the row of the data frame a log entry is about
RowOf(entry) ==
    clients[CHOOSE i \in ValidRows : ClientIdText(clients[i]) = entry.client]

\* C2: for the existing set X and the desired set D of a processed client,
\* the differ issues INSERTs exactly for D \ X and DELETEs exactly for X \ D
\* (none at all when X = D, never the whole of X and D), and when the
\* statements succeed the client's links are exactly D afterwards.
C2_MinimalDelta ==
    \A k \in 1..Len(issued) :
        LET e == issued[k]
            D == {Str(n) : n \in EligibleNpis(RowOf(e))}
            X == e.exists
        IN /\ e.deletes = X \ D
           /\ (epc # "crashed" \/ k < Len(issued)) => e.inserts = D \ X
           /\ e.inserts \subseteq D \ X
           /\ (X = D) => (e.inserts = {} /\ e.deletes = {})
           /\ ~db_error =>
                  /\ X = {Str(n) : n \in LinkedNpis(start_links, ParseInt(e.client))}
                  /\ LinkedNpis(links, ParseInt(e.client)) = EligibleNpis(RowOf(e))
                  /\ DictGet(existing_links, e.client) = D

\* one client needed an insert and a delete while keeping a link, another
\* had X = D and got no statement
C2_Witness ==
    /\ ~db_error
    /\ \E j, k \in 1..Len(issued) :
           /\ issued[j].inserts # {}
           /\ issued[j].deletes # {}
           /\ issued[j].exists \cap issued[j].should_be # {}
           /\ issued[k].exists = issued[k].should_be
           /\ issued[k].exists # {}
           /\ issued[k].inserts = {} /\ issued[k].deletes = {}

(***************************************************************************)
(* Further claims about the sync run                                       *)
(***************************************************************************)
\* no calendar of the service has, on the day of row r, an event whose
\* description holds the row's client id
NoEventOfClient(r) ==
    \A c \in Calendars : \A k \in 1..Len(BucketOf(c, r.STARTTIME)) :
        ~Contains(BucketOf(c, r.STARTTIME)[k].description, Str(r.CLIENT_ID))

\* the entries of the missing-in-calendar list that name an id
MissingOf(id) == {k \in 1..Len(missing_in_gcal) : missing_in_gcal[k].appointment_id = id}

\* C11: once prepare_appointments_from_csv has returned, a row that passed the
\* record filter, is not trusted, and has no event of its client on its day in
\* any calendar is not in the returned frame, is not written, and has exactly
\* one entry in the missing-in-calendar list.
C11_TotalMissDroppedAndReportedOnce ==
    AfterPrepare =>
        \A i \in 1..Len(filtered) :
            (filtered[i].APPOINTMENT_ID \notin trusted_ids /\ NoEventOfClient(filtered[i]))
            => /\ ~InFrame(filtered[i].APPOINTMENT_ID)
               /\ filtered[i].APPOINTMENT_ID \notin WrittenIds
               /\ Cardinality(MissingOf(filtered[i].APPOINTMENT_ID)) = 1

\* C11 witness: a run ended in which every calendar was searched, a row that no
\* calendar has was reported once and not written, and another row was written.
C11_Witness ==
    /\ pc = "done"
    /\ fetched = Calendars
    /\ writes # <<>>
    /\ \E i \in 1..Len(filtered) :
           /\ filtered[i].APPOINTMENT_ID \notin trusted_ids
           /\ NoEventOfClient(filtered[i])
           /\ Cardinality(MissingOf(filtered[i].APPOINTMENT_ID)) = 1
           /\ filtered[i].APPOINTMENT_ID \notin WrittenIds
           /\ \E c \in Calendars : Flatten(gcal[c]) # <<>>

(***************************************************************************)
(* The record filter on its own: lines 305-385 of                          *)
(* prepare_appointments_from_csv applied to any export                     *)
(***************************************************************************)
MaxFilterRows == 3

NameCode == <<"J","o"," ","D"," ","9","0","0","0","0">>

\* rows of client 55 around day D0, and one row of client 7
FilterRowPool ==
    {[CLIENT_ID |-> 55, STARTTIME |-> D0 + 9 * Hour, ENDTIME |-> D0 + 10 * Hour,
      NAME |-> NameJo, CANCELBYNAME |-> None, NPI |-> Some(111)],
     [CLIENT_ID |-> 55, STARTTIME |-> D0 + 9 * Hour, ENDTIME |-> D0 + 10 * Hour,
      NAME |-> NameJo, CANCELBYNAME |-> Some("Staff"), NPI |-> Some(111)],
     [CLIENT_ID |-> 55, STARTTIME |-> D0 + DaySeconds + 9 * Hour,
      ENDTIME |-> D0 + DaySeconds + 10 * Hour,
      NAME |-> NameJo, CANCELBYNAME |-> None, NPI |-> Some(111)],
     [CLIENT_ID |-> 55, STARTTIME |-> D0 + DaySeconds + 10 * Hour,
      ENDTIME |-> D0 + DaySeconds + 11 * Hour,
      NAME |-> NameCode, CANCELBYNAME |-> None, NPI |-> Some(111)],
     [CLIENT_ID |-> 55, STARTTIME |-> D0 + 20 * DaySeconds + 9 * Hour,
      ENDTIME |-> D0 + 20 * DaySeconds + 10 * Hour,
      NAME |-> NameCode, CANCELBYNAME |-> None, NPI |-> Some(111)],
     [CLIENT_ID |-> 55, STARTTIME |-> D0 - 40 * DaySeconds + 9 * Hour,
      ENDTIME |-> D0 - 40 * DaySeconds + 10 * Hour,
      NAME |-> NameCode, CANCELBYNAME |-> None, NPI |-> Some(111)],
     [CLIENT_ID |-> 55, STARTTIME |-> D0 - 170 * DaySeconds + 9 * Hour,
      ENDTIME |-> D0 - 170 * DaySeconds + 10 * Hour,
      NAME |-> NameCode, CANCELBYNAME |-> None, NPI |-> Some(111)],
     [CLIENT_ID |-> 7, STARTTIME |-> D0 + 9 * Hour, ENDTIME |-> D0 + 10 * Hour,
      NAME |-> NameAl, CANCELBYNAME |-> None, NPI |-> Some(222)]}

\* exports of at most MaxFilterRows rows, row i with the id IdList[i]
FilterExports ==
    UNION {{[i \in 1..n |-> WithId(f[i], i)] : f \in [1..n -> FilterRowPool]} :
           n \in 0..MaxFilterRows}

InitFilter ==
    /\ appts = {}
    /\ links = {}
    /\ csv \in FilterExports
    /\ gcal = [c \in Calendars |-> <<<<>>>>]
    /\ trusted_ids = {}
    /\ ignored_ids \in SUBSET {"A1"}
    /\ npi_cache = << >>
    /\ StartOfRun
    /\ IdleElig

NextFilter == Prepare

SpecFilter == InitFilter /\ [][NextFilter]_vars

\* the record filter has run
Filtered == pc # "start"

\* the row of the export with this id is in the filter's output
Survives(id) == \E k \in 1..Len(filtered) : filtered[k].APPOINTMENT_ID = id

\* position of an id in the export
CsvPos(id) == CHOOSE i \in 1..Len(csv) : csv[i].APPOINTMENT_ID = id

\* the row carries the low-frequency billing code
HasCode(r) == Contains(SelectSeq(r.NAME, IsDigit), <<"9","0","0","0","0">>)

\* the row is not ignored, not a test client, not a report, not cancelled, and
\* lies in the four-week window: only the next-day rule and the cooldown rule
\* can drop it
OnlyRulesApply(r) ==
    /\ r.APPOINTMENT_ID \notin ignored_ids
    /\ ~should_skip_appointment(r)
    /\ InWindow(r, Now)

\* C12 (as claimed): a row that only the next-day rule can drop (it has no
\* billing code) is dropped only when a surviving row of the same client lies
\* on the day before; a row whose previous-day neighbours were all dropped is
\* kept.
C12_NextDayDropNeedsSurvivingNeighbour ==
    Filtered =>
        \A i \in 1..Len(csv) :
            (OnlyRulesApply(csv[i]) /\ ~HasCode(csv[i]) /\ ~Survives(csv[i].APPOINTMENT_ID))
            => \E j \in 1..Len(csv) :
                   /\ csv[j].CLIENT_ID = csv[i].CLIENT_ID
                   /\ DateOf(csv[j].STARTTIME) = DateOf(csv[i].STARTTIME) - 1
                   /\ Survives(csv[j].APPOINTMENT_ID)

\* no row of the export, dropped or not, is of r's client on the day before r
NoPreviousDayRow(r) ==
    \A j \in 1..Len(csv) :
        ~(csv[j].CLIENT_ID = r.CLIENT_ID
          /\ DateOf(csv[j].STARTTIME) = DateOf(r.STARTTIME) - 1)

\* C13 (as claimed): in an export whose rows all lie in the four-week window,
\* a row with the low-frequency code that only the cooldown rule can drop is
\* dropped exactly when a surviving row of the same client, not later than it,
\* carries the code fewer than 182 days before it; rows dropped for another
\* reason start no cooldown.
C13_CooldownOnlyFromSurvivingRows ==
    (Filtered /\ \A k \in 1..Len(csv) : InWindow(csv[k], Now)) =>
        \A i \in 1..Len(csv) :
            (OnlyRulesApply(csv[i]) /\ HasCode(csv[i]) /\ NoPreviousDayRow(csv[i]))
            => (~Survives(csv[i].APPOINTMENT_ID)
                <=> \E j \in 1..Len(csv) :
                        /\ j # i
                        /\ csv[j].CLIENT_ID = csv[i].CLIENT_ID
                        /\ HasCode(csv[j])
                        /\ Survives(csv[j].APPOINTMENT_ID)
                        /\ csv[j].STARTTIME <= csv[i].STARTTIME
                        /\ DateOf(csv[i].STARTTIME) - DateOf(csv[j].STARTTIME)
                               < CooldownDays)

\* C14 (as claimed): the surviving rows appear in the filter's output in the
\* relative order they have in the export.
C14_OutputKeepsInputOrder ==
    Filtered =>
        \A i, j \in 1..Len(filtered) :
            i < j => CsvPos(filtered[i].APPOINTMENT_ID) < CsvPos(filtered[j].APPOINTMENT_ID)

\* C14 (amended): the filter's output is ordered by client id, then by start
\* time, rows equal on both in the order of the export; every output row is a
\* row of the export and no row appears twice.
C14_OutputSortedByClientAndStart ==
    Filtered =>
        /\ \A i, j \in 1..Len(filtered) :
               i < j =>
                   \/ filtered[i].CLIENT_ID < filtered[j].CLIENT_ID
                   \/ /\ filtered[i].CLIENT_ID = filtered[j].CLIENT_ID
                      /\ filtered[i].STARTTIME < filtered[j].STARTTIME
                   \/ /\ filtered[i].CLIENT_ID = filtered[j].CLIENT_ID
                      /\ filtered[i].STARTTIME = filtered[j].STARTTIME
                      /\ CsvPos(filtered[i].APPOINTMENT_ID)
                             < CsvPos(filtered[j].APPOINTMENT_ID)
        /\ \A i \in 1..Len(filtered) :
               \E k \in 1..Len(csv) :
                   /\ csv[k].APPOINTMENT_ID = filtered[i].APPOINTMENT_ID
                   /\ csv[k].CLIENT_ID = filtered[i].CLIENT_ID
                   /\ csv[k].STARTTIME = filtered[i].STARTTIME

\* C14 witness: three rows survive; the export lists client 55 before client 7
\* and the output lists them the other way round, and two rows of client 55
\* with the same start keep the order of the export.
C14_Witness ==
    /\ Filtered
    /\ Len(filtered) = 3
    /\ filtered[1].CLIENT_ID = 7
    /\ CsvPos(filtered[1].APPOINTMENT_ID) > CsvPos(filtered[2].APPOINTMENT_ID)
    /\ filtered[2].STARTTIME = filtered[3].STARTTIME
    /\ filtered[2].CLIENT_ID = filtered[3].CLIENT_ID

(***************************************************************************)
(* The calendar index builder on listings that hold an event without start *)
(***************************************************************************)
\* three events of the service and one event that has neither dateTime nor date
IndexEventPool ==
    {e \in EventPool : e.id \in {"e1", "e2", "e4"}}
        \cup {[id |-> "e6", start |-> None, description |-> <<"5","5">>,
               summary |-> None]}

IndexRowPool == {r \in SyncRowPool : r.CLIENT_ID = 55 /\ r.NPI # None}

InitIndex ==
    /\ appts = {}
    /\ links = {}
    /\ csv \in Exports(IndexRowPool)
    /\ gcal \in Listings(IndexEventPool)
    /\ trusted_ids \in SUBSET {"A1"}
    /\ ignored_ids = {}
    /\ npi_cache \in {("eval1@x" :> 111) @@ ("eval2@x" :> 222), ("eval1@x" :> 111)}
    /\ StartOfRun
    /\ IdleElig

SpecIndex == InitIndex /\ [][NextSync]_vars

\* the days any event of the pools starts on, and the days around them
IndexDays ==
    UNION {{DateOf(The(e.start)) - 1, DateOf(The(e.start)), DateOf(The(e.start)) + 1} :
              e \in {x \in EventPool \cup IndexEventPool : ~IsNone(x.start)}}

\* how often an event occurs in a sequence of events
Occurrences(events, e) == Cardinality({k \in 1..Len(events) : events[k] = e})

\* C15: when the listing of a calendar has succeeded, all_events holds every
\* page of the calendar in order, and each fetched event that has a start is
\* once in the bucket of the date of its start and in no other bucket; an
\* event without start is in none, and a bucket holds fetched events only.
C15_BucketsPartitionFetchedEvents ==
    pc = "match" =>
        /\ all_events = Flatten(gcal[CalendarList[calIdx]])
        /\ \A k \in 1..Len(all_events) : \A d \in IndexDays :
               Occurrences(DayEvents(all_events, d), all_events[k])
                   = IF /\ all_events[k].start # {}
                        /\ (The(all_events[k].start) \div 86400) = d
                     THEN 1 ELSE 0
        /\ \A d \in IndexDays : \A j \in 1..Len(DayEvents(all_events, d)) :
               Occurrences(all_events, DayEvents(all_events, d)[j]) = 1

\* C15 witness: a calendar listed in two pages was fetched; it holds an event
\* without start and an event on day D0.
C15_Witness ==
    /\ pc = "match"
    /\ Len(gcal[CalendarList[calIdx]]) = 2
    /\ Len(all_events) = 2
    /\ \E k \in 1..2 : all_events[k].start = {}
    /\ Len(DayEvents(all_events, DateOf(D0))) = 1

(***************************************************************************)
(* The matcher when several calendars hold events of one client            *)
(***************************************************************************)
\* the three events of client 55 on day D0
TieEventPool == {e \in EventPool : e.id \in {"e1", "e2", "e3"}}

\* every placement of the events of a pool on the calendars
Placements(pool) ==
    UNION {{[c \in Calendars |-> Pages(SortByStart({e \in S : f[e] = c}))] :
               f \in [S -> Calendars]} :
           S \in SUBSET pool}

InitTie ==
    /\ appts = {}
    /\ links = {}
    /\ csv \in Exports(IndexRowPool)
    /\ gcal \in Placements(TieEventPool)
    /\ trusted_ids \in SUBSET {"A1"}
    /\ ignored_ids = {}
    /\ npi_cache \in {("eval1@x" :> 111) @@ ("eval2@x" :> 222), ("eval1@x" :> 111)}
    /\ StartOfRun
    /\ IdleElig

SpecTie == InitTie /\ [][NextSync]_vars

\* calendar c holds, in r's day bucket, an event with r's client id at most
\* one hour from r's start
HoldsAcceptable(c, r) ==
    \E k \in 1..Len(BucketOf(c, r.STARTTIME)) :
        Acceptable(BucketOf(c, r.STARTTIME)[k], r.CLIENT_ID, r.STARTTIME)

\* positions in r's day bucket of calendar c of the events with r's client id
Carriers(c, r) ==
    {k \in 1..Len(BucketOf(c, r.STARTTIME)) :
        Contains(BucketOf(c, r.STARTTIME)[k].description, Str(r.CLIENT_ID))}

\* the first event of r's day bucket of calendar c that carries r's client id
FirstCarrier(c, r) ==
    BucketOf(c, r.STARTTIME)[CHOOSE k \in Carriers(c, r) : \A m \in Carriers(c, r) : k <= m]

\* calendar c yields a match for r: its first carrier is acceptable
YieldsMatch(c, r) ==
    /\ Carriers(c, r) # {}
    /\ Acceptable(FirstCarrier(c, r), r.CLIENT_ID, r.STARTTIME)

\* the earliest position of the calendar list among a set of positions
Earliest(S) == CHOOSE n \in S : \A m \in S : n <= m

\* C16 (as claimed): when several fetched calendars each hold an acceptable
\* event for a row, the recorded match is the one of the calendar earliest in
\* the calendar list.
C16_EarliestAcceptableCalendarWins ==
    AfterSearch =>
        \A i \in 1..Len(filtered) :
            LET r    == filtered[i]
                good == {n \in 1..Len(CalendarList) :
                            CalendarList[n] \in fetched /\ HoldsAcceptable(CalendarList[n], r)}
            IN Cardinality(good) >= 2 =>
                   /\ r.idx \in DOMAIN results
                   /\ results[r.idx].calendar_id = CalendarList[Earliest(good)]

\* C16 (amended): the recorded match of a row is determined by the rows, the
\* calendar list order and the fetched events: it is the first carrier of the
\* earliest fetched calendar whose first carrier is acceptable, and there is
\* none when no fetched calendar has an acceptable first carrier.
C16_EarliestMatchingCalendarWins ==
    AfterSearch =>
        \A i \in 1..Len(filtered) :
            LET r    == filtered[i]
                good == {n \in 1..Len(CalendarList) :
                            CalendarList[n] \in fetched /\ YieldsMatch(CalendarList[n], r)}
            IN IF good = {} THEN r.idx \notin DOMAIN results
               ELSE /\ r.idx \in DOMAIN results
                    /\ results[r.idx].calendar_id = CalendarList[Earliest(good)]
                    /\ results[r.idx].event_id
                           = FirstCarrier(CalendarList[Earliest(good)], r).id

\* C16 witness: both calendars were fetched, each yields a match for a row, and
\* the row carries the event of the first calendar of the list.
C16_Witness ==
    /\ AfterSearch
    /\ fetched = Calendars
    /\ \E i \in 1..Len(filtered) :
           /\ \A c \in Calendars : YieldsMatch(c, filtered[i])
           /\ filtered[i].idx \in DOMAIN results
           /\ results[filtered[i].idx].calendar_id = CalendarList[1]

(***************************************************************************)
(* The district predicate, seen through relationship runs of private-pay   *)
(* clients (the insurance predicate returns every evaluator for them)      *)
(***************************************************************************)
S_NA_UP == <<"N","/","A">>

DistrictClientPool ==
    {[CLIENT_ID |-> Some(55), SCHOOL_DISTRICT |-> Some(S_COLLETON_SP),
      ADDRESS |-> Some(S_ADDR_29401),
      DOB |-> Some([isStr |-> TRUE, iso |-> TRUE, y |-> 2015, m |-> 3, d |-> 9]),
      POLICY_PRIVATEPAY |-> 1, INSURANCE_COMPANYNAME |-> None,
      SECONDARY_INSURANCE_COMPANYNAME |-> NoSecondary],
     [CLIENT_ID |-> Some(7), SCHOOL_DISTRICT |-> Some(S_DORCHESTER),
      ADDRESS |-> Some(S_ADDR_29488),
      DOB |-> Some([isStr |-> TRUE, iso |-> TRUE, y |-> 2005, m |-> 10, d |-> 31]),
      POLICY_PRIVATEPAY |-> 1, INSURANCE_COMPANYNAME |-> None,
      SECONDARY_INSURANCE_COMPANYNAME |-> NoSecondary],
     [CLIENT_ID |-> Some(8), SCHOOL_DISTRICT |-> Some(S_DORCHESTER),
      ADDRESS |-> Some(S_ADDR_29488),
      DOB |-> Some([isStr |-> TRUE, iso |-> TRUE, y |-> 2005, m |-> 11, d |-> 2]),
      POLICY_PRIVATEPAY |-> 1, INSURANCE_COMPANYNAME |-> None,
      SECONDARY_INSURANCE_COMPANYNAME |-> NoSecondary],
     [CLIENT_ID |-> Some(12), SCHOOL_DISTRICT |-> Some(S_DORCHESTER),
      ADDRESS |-> Some(S_ADDR_29488),
      DOB |-> Some([isStr |-> FALSE, iso |-> TRUE, y |-> 1990, m |-> 1, d |-> 1]),
      POLICY_PRIVATEPAY |-> 1, INSURANCE_COMPANYNAME |-> None,
      SECONDARY_INSURANCE_COMPANYNAME |-> NoSecondary],
     [CLIENT_ID |-> Some(13), SCHOOL_DISTRICT |-> Some(S_COLLETON_UP),
      ADDRESS |-> Some(S_ADDR_29401),
      DOB |-> Some([isStr |-> TRUE, iso |-> FALSE, y |-> 1990, m |-> 3, d |-> 9]),
      POLICY_PRIVATEPAY |-> 1, INSURANCE_COMPANYNAME |-> None,
      SECONDARY_INSURANCE_COMPANYNAME |-> NoSecondary],
     [CLIENT_ID |-> Some(14), SCHOOL_DISTRICT |-> Some(S_NA_UP),
      ADDRESS |-> Some(S_ADDR_29488),
      DOB |-> Some([isStr |-> TRUE, iso |-> TRUE, y |-> 2015, m |-> 3, d |-> 9]),
      POLICY_PRIVATEPAY |-> 1, INSURANCE_COMPANYNAME |-> None,
      SECONDARY_INSURANCE_COMPANYNAME |-> NoSecondary],
     [CLIENT_ID |-> None, SCHOOL_DISTRICT |-> None,
      ADDRESS |-> None, DOB |-> None,
      POLICY_PRIVATEPAY |-> 1, INSURANCE_COMPANYNAME |-> None,
      SECONDARY_INSURANCE_COMPANYNAME |-> NoSecondary]}

InitDistrict ==
    /\ IdleSync
    /\ clients \in ClientFrames(DistrictClientPool)
    /\ evaluators = EvaluatorDict
    /\ links \in SUBSET {<<55, 111>>, <<55, 222>>}
    /\ force_ids = {}
    /\ epc = "start"
    /\ existing_links = << >>
    /\ start_links = links
    /\ cIdx = 1
    /\ issued = <<>>
    /\ db_error = FALSE

SpecDistrict == InitDistrict /\ [][NextElig]_vars

\* the client's district is a text other than "unknown", "n/a", "no"
DistrictKnown(client) ==
    /\ client.SCHOOL_DISTRICT # {}
    /\ LowerStr(The(client.SCHOOL_DISTRICT)) \notin {S_UNKNOWN, S_NA, S_NO}

\* the client's age today, whatever the type of the DOB value
AgeOf(client) ==
    LET b == The(client.DOB)
    IN 2026 - b.y - (IF b.m > 11 \/ (b.m = 11 /\ b.d > 1) THEN 1 ELSE 0)

\* the evaluator's blocked lists hold the client's district (whatever the
\* case) or the client's zip code
BlockedFor(client, npi) ==
    \/ \E i \in 1..Len(evaluators[npi].blockedSchoolDistricts) :
           Strip(LowerStr(evaluators[npi].blockedSchoolDistricts[i]))
               = Strip(LowerStr(The(client.SCHOOL_DISTRICT)))
    \/ /\ client.ADDRESS # {}
       /\ \E i \in 1..Len(evaluators[npi].blockedZipCodes) :
              evaluators[npi].blockedZipCodes[i] = LastToken(The(client.ADDRESS))

\* the evaluators a log entry holds as the desired set
DesiredNpis(entry) == {ParseInt(n) : n \in entry.should_be}

\* C17 (as claimed): the district predicate never raises; for a client with a
\* known district and an age of at most 20 it returns the evaluators whose
\* blocked lists hold neither the district nor the zip code, and for a client
\* with an unknown district or an age above 20 it returns every evaluator.
C17_DistrictPredicate ==
    /\ ~(epc = "crashed" /\ ~db_error)
    /\ \A k \in 1..Len(issued) :
           LET c == RowOf(issued[k])
           IN /\ (DistrictKnown(c) /\ c.DOB # {} /\ AgeOf(c) <= 20)
                  => DesiredNpis(issued[k])
                         = {n \in DOMAIN evaluators : ~BlockedFor(c, n)}
              /\ (~DistrictKnown(c) \/ (c.DOB # {} /\ AgeOf(c) > 20))
                  => DesiredNpis(issued[k]) = DOMAIN evaluators

(***************************************************************************)
(* The insurance predicate, seen through relationship runs of clients      *)
(* without a school district (the district predicate returns every         *)
(* evaluator for them)                                                     *)
(***************************************************************************)
S_HUMANA == <<"H","u","m","a","n","a">>

\* a client row without district, address and date of birth
InsuranceClient(id, private, primary, secondary) ==
    [CLIENT_ID |-> Some(id), SCHOOL_DISTRICT |-> None, ADDRESS |-> None,
     DOB |-> None, POLICY_PRIVATEPAY |-> private,
     INSURANCE_COMPANYNAME |-> primary,
     SECONDARY_INSURANCE_COMPANYNAME |-> secondary]

InsuranceClientPool ==
    {InsuranceClient(21, 0, Some(S_BLUE_CROSS_UP), NoSecondary),
     InsuranceClient(22, 0, Some(S_AETNA_ATC), NoSecondary),
     InsuranceClient(23, 0, None,
         Some([isList |-> FALSE, text |-> S_SECONDARY, items |-> <<>>])),
     InsuranceClient(24, 0, Some(S_HUMANA),
         Some([isList |-> TRUE, text |-> <<>>, items |-> <<S_HUMANA, S_ATC>>])),
     InsuranceClient(25, 0, Some(S_HUMANA), NoSecondary),
     InsuranceClient(26, 1, Some(S_HUMANA), NoSecondary),
     InsuranceClient(27, 0, Some(S_EMAIL), NoSecondary),
     [CLIENT_ID |-> Some(13), SCHOOL_DISTRICT |-> Some(S_DORCHESTER),
      ADDRESS |-> Some(S_ADDR_29401),
      DOB |-> Some([isStr |-> TRUE, iso |-> FALSE, y |-> 2015, m |-> 3, d |-> 9]),
      POLICY_PRIVATEPAY |-> 0, INSURANCE_COMPANYNAME |-> Some(S_BCBS),
      SECONDARY_INSURANCE_COMPANYNAME |-> NoSecondary],
     [CLIENT_ID |-> None, SCHOOL_DISTRICT |-> None,
      ADDRESS |-> None, DOB |-> None,
      POLICY_PRIVATEPAY |-> 0, INSURANCE_COMPANYNAME |-> None,
      SECONDARY_INSURANCE_COMPANYNAME |-> NoSecondary]}

InitInsurance ==
    /\ IdleSync
    /\ clients \in ClientFrames(InsuranceClientPool)
    /\ evaluators = EvaluatorDict
    /\ links \in SUBSET {<<21, 111>>, <<22, 111>>, <<27, 333>>}
    /\ force_ids = {}
    /\ epc = "start"
    /\ existing_links = << >>
    /\ start_links = links
    /\ cIdx = 1
    /\ issued = <<>>
    /\ db_error = FALSE

SpecInsurance == InitInsurance /\ [][NextElig]_vars

\* the insurance names of a client: the primary one when there is one, and
\* every secondary one
InsuranceNames(client) ==
    LET sec == client.SECONDARY_INSURANCE_COMPANYNAME
        parts == IF IsNone(sec) THEN <<>>
                 ELSE IF The(sec).isList THEN The(sec).items
                 ELSE SplitOn(The(sec).text, ",")
    IN client.INSURANCE_COMPANYNAME \cup {Strip(parts[i]) : i \in 1..Len(parts)}

\* the evaluator's profile flags one of the client's insurances as accepted
AcceptsOneOf(client, npi) ==
    \E name \in InsuranceNames(client) :
        _normalize_insurance_name(name, insurance_mappings)
            \in evaluators[npi].accepts

\* C18 (as claimed): a private-pay client is eligible for every evaluator; for
\* any other client the insurance predicate returns exactly the evaluators
\* whose profile flags as accepted one of the client's primary or secondary
\* insurances after alias normalization.
C18_InsurancePredicate ==
    \A k \in 1..Len(issued) :
        LET c == RowOf(issued[k])
        IN IsNone(c.SCHOOL_DISTRICT) =>
               DesiredNpis(issued[k])
                   = IF c.POLICY_PRIVATEPAY = 1 THEN DOMAIN evaluators
                     ELSE {n \in DOMAIN evaluators : AcceptsOneOf(c, n)}

(***************************************************************************)
(* The relationship run in force mode:                                     *)
(* insert_by_matching_criteria_client_specific                             *)
(***************************************************************************)
\* line 636: {str(id).strip() for id in specific_client_ids}
specific_client_ids == {Strip(id) : id \in force_ids}

InForce(client) == ClientIdText(client) \in specific_client_ids

\* lines 637-639: the rows of the data frame whose id text is in the set
clients_to_process == SelectSeq(clients, InForce)

\* a delete limited to the clients the data frame has a row for
_delete_all_relationships_OfListedClients(tbl, client_ids) ==
    {l \in tbl : \/ Str(l[1]) \notin client_ids
                 \/ \A i \in 1..Len(clients) : clients[i].CLIENT_ID # {l[1]}}

\* a delete that empties the table
_delete_all_relationships_Everyone(tbl, client_ids) == {}

\* _delete_all_relationships_for_clients: DELETE ... WHERE clientId IN (..)
_delete_all_relationships_for_clients(tbl, client_ids) ==
    {l \in tbl : Str(l[1]) \notin client_ids}

\* lines 663-664: one _link_client_provider per matched evaluator
_link_client_provider(tbl, client_id, npis) ==
    tbl \cup {<<ParseInt(client_id), npi>> : npi \in npis}

\* lines 653-661: matched_evaluator_npis
matched_evaluator_npis(client) ==
    match_by_school_district(client, evaluators)
        \cap match_by_insurance(client, evaluators, insurance_mappings)

\* line 641: every link of the named clients is deleted
ForceDelete ==
    /\ epc = "start"
    /\ force_ids # {}
    /\ links' = _delete_all_relationships_for_clients(links, specific_client_ids)
    /\ epc' = "fmappings"
    /\ UNCHANGED <<clients, evaluators, force_ids, existing_links, start_links,
                   cIdx, issued, db_error>>
    /\ UNCHANGED <<appts, inVars, runVars>>

\* lines 539-541: the DELETE raises; it is rolled back and logged, and the run
\* goes on
ForceDeleteFails ==
    /\ epc = "start"
    /\ force_ids # {}
    /\ db_error' = TRUE
    /\ epc' = "fmappings"
    /\ UNCHANGED <<clients, evaluators, force_ids, existing_links, start_links,
                   cIdx, issued>>
    /\ UNCHANGED <<dbVars, inVars, runVars>>

\* line 642: the insurance mappings are read
ForceLoadMappings ==
    /\ epc = "fmappings"
    /\ epc' = "floop"
    /\ UNCHANGED <<clients, evaluators, force_ids, existing_links, start_links,
                   cIdx, issued, db_error>>
    /\ UNCHANGED <<dbVars, inVars, runVars>>

\* get_insurance_mappings raises: the run ends after the delete
ForceLoadMappingsFails ==
    /\ epc = "fmappings"
    /\ epc' = "crashed"
    /\ db_error' = TRUE
    /\ UNCHANGED <<clients, evaluators, force_ids, existing_links, start_links,
                   cIdx, issued>>
    /\ UNCHANGED <<dbVars, inVars, runVars>>

\* lines 647-651: a row without a valid id is skipped
ForceSkipInvalid ==
    /\ epc = "floop"
    /\ cIdx <= Len(clients_to_process)
    /\ InvalidId(ClientIdText(clients_to_process[cIdx]))
    /\ cIdx' = cIdx + 1
    /\ UNCHANGED <<clients, evaluators, force_ids, epc, existing_links, start_links,
                   issued, db_error>>
    /\ UNCHANGED <<dbVars, inVars, runVars>>

\* lines 653-671: one client, every INSERT succeeds
ForceProcess ==
    /\ epc = "floop"
    /\ cIdx <= Len(clients_to_process)
    /\ ~StrptimeRaises(clients_to_process[cIdx])
    /\ LET client_id == ClientIdText(clients_to_process[cIdx])
           npis == matched_evaluator_npis(clients_to_process[cIdx])
       IN /\ ~InvalidId(client_id)
          /\ links' = _link_client_provider(links, client_id, npis)
          /\ issued' = Append(issued,
                 LogEntry(client_id, {Str(n) : n \in npis}, {}, {},
                          {Str(n) : n \in npis}))
    /\ cIdx' = cIdx + 1
    /\ UNCHANGED <<clients, evaluators, force_ids, epc, existing_links, start_links,
                   db_error>>
    /\ UNCHANGED <<appts, inVars, runVars>>

\* lines 559-561: an INSERT raises; nothing catches it, the run ends with the
\* inserts committed so far
ForceInsertFails ==
    /\ epc = "floop"
    /\ cIdx <= Len(clients_to_process)
    /\ ~StrptimeRaises(clients_to_process[cIdx])
    /\ LET client_id == ClientIdText(clients_to_process[cIdx])
           npis == matched_evaluator_npis(clients_to_process[cIdx])
       IN /\ ~InvalidId(client_id)
          /\ npis # {}
          /\ \E done \in SUBSET npis :
                 /\ done # npis
                 /\ links' = _link_client_provider(links, client_id, done)
                 /\ issued' = Append(issued,
                        LogEntry(client_id, {Str(n) : n \in npis}, {}, {},
                                 {Str(n) : n \in done}))
    /\ db_error' = TRUE
    /\ epc' = "crashed"
    /\ UNCHANGED <<clients, evaluators, force_ids, existing_links, start_links, cIdx>>
    /\ UNCHANGED <<appts, inVars, runVars>>

\* line 653: match_by_school_district raises ValueError on the client's DOB;
\* nothing catches it, the run ends after the delete
ForceMatchRaises ==
    /\ epc = "floop"
    /\ cIdx <= Len(clients_to_process)
    /\ ~InvalidId(ClientIdText(clients_to_process[cIdx]))
    /\ StrptimeRaises(clients_to_process[cIdx])
    /\ epc' = "crashed"
    /\ UNCHANGED <<clients, evaluators, force_ids, existing_links, start_links,
                   cIdx, issued, db_error>>
    /\ UNCHANGED <<dbVars, inVars, runVars>>

\* line 674: the loop is over
ForceFinish ==
    /\ epc = "floop"
    /\ cIdx > Len(clients_to_process)
    /\ epc' = "done"
    /\ UNCHANGED <<clients, evaluators, force_ids, existing_links, start_links,
                   cIdx, issued, db_error>>
    /\ UNCHANGED <<dbVars, inVars, runVars>>

S_55_SP == <<" ","5","5"," ">>

S_13 == <<"1","3">>

\* values force_client_ids may hold
ForcePool == {S_55_SP, S_13, S_NONE}

InitForce ==
    /\ IdleSync
    /\ clients \in ClientFrames(ClientPool)
    /\ evaluators = EvaluatorDict
    /\ links \in SUBSET LinkPool
    /\ force_ids \in SUBSET ForcePool
    /\ epc = "start"
    /\ existing_links = << >>
    /\ start_links = links
    /\ cIdx = 1
    /\ issued = <<>>
    /\ db_error = FALSE

\* insert_by_matching_criteria: force mode when force_client_ids is truthy,
\* the incremental mode otherwise
NextForce ==
    \/ NextElig
    \/ ForceDelete
    \/ ForceDeleteFails
    \/ ForceLoadMappings
    \/ ForceLoadMappingsFails
    \/ ForceSkipInvalid
    \/ ForceProcess
    \/ ForceInsertFails
    \/ ForceMatchRaises
    \/ ForceFinish

SpecForce == InitForce /\ [][NextForce]_vars

\* the client ids a force run names
ForcedClients == {ParseInt(id) : id \in specific_client_ids \ {S_NONE}}

\* the rows of the data frame that hold client id
RowsOf(id) == {i \in ValidRows : clients[i].CLIENT_ID = {id}}

\* C19: when a force run for the set S has ended and no database statement
\* raised, every client of S is linked to exactly the evaluators that are
\* eligible for its row of the input (to none when the input has no row for
\* it), whatever it was linked to before; and at every point of a force run
\* the links of the clients outside S are those the table held before the run.
C19_ForceReplacesOnlyNamedClients ==
    force_ids # {} =>
        /\ (epc = "done" /\ ~db_error) =>
               \A id \in ForcedClients :
                   LinkedNpis(links, id)
                       = UNION {EligibleNpis(clients[i]) : i \in RowsOf(id)}
        /\ \A l \in links \cup start_links :
               l[1] \notin ForcedClients => (l \in links <=> l \in start_links)

\* C19 witness: a finished force run without error for client 55 alone that
\* removed a stale link of 55 and added a missing one, while the stale link
\* of client 12, which is in the input too, and the link of the absent
\* client 9 are still there.
C19_Witness ==
    /\ force_ids = {S_55_SP}
    /\ epc = "done"
    /\ ~db_error
    /\ \E i \in RowsOf(55) :
           /\ LinkedNpis(start_links, 55) \ EligibleNpis(clients[i]) # {}
           /\ EligibleNpis(clients[i]) \ LinkedNpis(start_links, 55) # {}
           /\ LinkedNpis(links, 55) = EligibleNpis(clients[i])
    /\ \E j \in RowsOf(12) :
           /\ <<12, 222>> \in links
           /\ 222 \notin EligibleNpis(clients[j])
    /\ <<9, 222>> \in links

(***************************************************************************)
(* The title parser, seen through sync runs whose calendar events carry    *)
(* the titles of a pool                                                    *)
(***************************************************************************)
\* an event of client 55 at 09:10 of day D0 with a title
TitleEvent(id, title) ==
    [id |-> id, start |-> Some(D0 + 9 * Hour + 600),
     description |-> <<"5","5">>, summary |-> title]

TitleEventPool ==
    {TitleEvent("t1", Some(<<"[","C","O","L","-","E","]"," ","J","o">>)),
     TitleEvent("t2", Some(<<"[","C","O","L","-","D","]">>)),
     TitleEvent("t3", Some(<<"a"," ","[","N","Y","C","-","D","E","]">>)),
     TitleEvent("t4", Some(<<"[","V","]"," ","J","o">>)),
     TitleEvent("t5", Some(<<"[","C","O","L","-","X","]">>)),
     TitleEvent("t6", Some(<<"[","C","O","L","U","M","B","I","A","-","E","]">>)),
     TitleEvent("t7", Some(<<"[","c","o","l","-","E","]">>)),
     TitleEvent("t8", Some(<<"J","o"," ","D">>)),
     TitleEvent("t9", Some(<<"[","V","]"," ","[","N","Y","C","-","E","]">>)),
     TitleEvent("t10", Some(<<"[","-","E","]"," ","[","C","O","L","-","E">>)),
     TitleEvent("t11", None)}

InitTitle ==
    /\ appts = {}
    /\ links = {}
    /\ csv \in Exports(IndexRowPool)
    /\ gcal \in Listings(TitleEventPool)
    /\ trusted_ids \in SUBSET {"A1"}
    /\ ignored_ids = {}
    /\ npi_cache \in {("eval1@x" :> 111) @@ ("eval2@x" :> 222), ("eval1@x" :> 111)}
    /\ StartOfRun
    /\ IdleElig

SpecTitle == InitTitle /\ [][NextSync]_vars

S_COL == <<"C","O","L">>

S_NYC == <<"N","Y","C">>

S_COLUMBIA == <<"C","O","L","U","M","B","I","A">>

\* every write that carries an event of the title pool holds the location and
\* the type the table gives for the event
WritesFollow(table) ==
    \A k \in 1..Len(writes) : \A e \in TitleEventPool :
        writes[k].calendarEventId = {e.id} =>
            /\ writes[k].locationKey = table[e.id].location
            /\ writes[k].daEval = table[e.id].type

\* location and type of the titles without a recognized tag, and of "[V]"
PlainTitles ==
    ("t4" :> [location |-> {}, type |-> {"DA"}])
    @@ ("t7" :> [location |-> {}, type |-> {}])
    @@ ("t8" :> [location |-> {}, type |-> {}])
    @@ ("t10" :> [location |-> {}, type |-> {}])
    @@ ("t11" :> [location |-> {}, type |-> {}])

\* C20 (as claimed): "[LOC-E]", "[LOC-D]", "[LOC-DE]" give location LOC with
\* type EVAL, DA, DAEVAL; a bare "[V]" gives (null, DA); a title whose tag is
\* unrecognized, an unknown type code in a well-formed bracket included, or
\* absent gives null for both.
C20_TagsGiveLocationAndTypeOrNothing ==
    WritesFollow(
        ("t1" :> [location |-> {S_COL}, type |-> {"EVAL"}])
        @@ ("t2" :> [location |-> {S_COL}, type |-> {"DA"}])
        @@ ("t3" :> [location |-> {S_NYC}, type |-> {"DAEVAL"}])
        @@ ("t5" :> [location |-> {}, type |-> {}])
        @@ ("t6" :> [location |-> {S_COLUMBIA}, type |-> {"EVAL"}])
        @@ ("t9" :> [location |-> {S_NYC}, type |-> {"EVAL"}])
        @@ PlainTitles)

\* C20 (amended): the leftmost well-formed tag "[LOC-CODE]" of a title gives
\* location LOC, COL when LOC is COLUMBIA, with type EVAL, DA, DAEVAL for the
\* codes E, D, DE and a null type for any other code; a title without a
\* well-formed tag gives (null, DA) when it holds "[V]" and null for both
\* otherwise.
C20_WellFormedTagAlwaysGivesLocation ==
    WritesFollow(
        ("t1" :> [location |-> {S_COL}, type |-> {"EVAL"}])
        @@ ("t2" :> [location |-> {S_COL}, type |-> {"DA"}])
        @@ ("t3" :> [location |-> {S_NYC}, type |-> {"DAEVAL"}])
        @@ ("t5" :> [location |-> {S_COL}, type |-> {}])
        @@ ("t6" :> [location |-> {S_COL}, type |-> {"EVAL"}])
        @@ ("t9" :> [location |-> {S_NYC}, type |-> {"EVAL"}])
        @@ PlainTitles)

\* C20 witness: a write carries the event titled "[COL-X]" with location COL
\* and no type.
C20_Witness ==
    \E k \in 1..Len(writes) :
        /\ writes[k].calendarEventId = {"t5"}
        /\ writes[k].locationKey = {S_COL}
        /\ writes[k].daEval = {}

(***************************************************************************)
(* Failures of the calendar service and of the database during a sync run  *)
(***************************************************************************)
\* positions in the calendar list of the fetched calendars that yield a match
FetchedYielding(r) ==
    {n \in 1..Len(CalendarList) :
        CalendarList[n] \in fetched /\ YieldsMatch(CalendarList[n], r)}

\* C21: once the calendar search is over, whatever listings raised, no match
\* and no time mismatch comes from a calendar whose listing raised (its pages
\* fetched before the error included), every row for which a calendar that was
\* listed in full yields a match carries the match of the earliest such
\* calendar, and the run has not ended in the search.
C21_FailedCalendarSkippedOthersMatched ==
    /\ AfterSearch =>
          /\ \A k \in DOMAIN results : results[k].calendar_id \in fetched
          /\ \A i \in 1..Len(time_mismatches) :
                 \E c \in fetched : \E j \in 1..Len(Flatten(gcal[c])) :
                     /\ Flatten(gcal[c])[j].start = {time_mismatches[i].found_time}
                     /\ Contains(Flatten(gcal[c])[j].description,
                                 Str(time_mismatches[i].client_id))
          /\ \A i \in 1..Len(filtered) :
                 FetchedYielding(filtered[i]) # {} =>
                     /\ filtered[i].idx \in DOMAIN results
                     /\ results[filtered[i].idx].calendar_id
                            = CalendarList[Earliest(FetchedYielding(filtered[i]))]
    /\ pc = "crashed" => (calIdx > Len(CalendarList) \/ filtered = <<>>)

\* C21 witness: the listing of the first calendar, which has two pages and
\* yields a match for a row, raised; the second calendar was listed, and the
\* row has no match and carries the time mismatch the second calendar gives.
C21_Witness ==
    /\ AfterSearch
    /\ fetched = {CalendarList[2]}
    /\ Len(gcal[CalendarList[1]]) >= 2
    /\ \E i \in 1..Len(filtered) :
           /\ YieldsMatch(CalendarList[1], filtered[i])
           /\ filtered[i].idx \notin DOMAIN results
           /\ IsMismatch(filtered[i])

\* the rows of the returned frame the insert loop has a write for
RowsToWrite ==
    {k \in 1..Len(appointments_df) :
        InsertDecision(appointments_df[k], trusted_ids, npi_cache).kind = "write"}

\* C22 (as claimed): when the run has ended, every row the insert loop has a
\* write for, other than a row whose write raised, was written, and every row
\* written is in the appointment table.
C22_WriteFailureDoesNotStopTheRun ==
    pc \in {"done", "crashed"} =>
        /\ \A k \in RowsToWrite :
               (pc = "crashed" => k # rowIdx)
                   => appointments_df[k].APPOINTMENT_ID \in WrittenIds
        /\ \A id \in WrittenIds : \E r \in appts : r.id = id

(***************************************************************************)
(* Sync runs one after the other over the same export, calendars and       *)
(* override lists; a run may be interrupted in its insert loop             *)
(***************************************************************************)
MaxLoggedWrites == 2

\* appointments stored by earlier runs: A1 with other values, and Z9, which
\* the export does not hold
SeedTable ==
    {[id |-> "A1", clientId |-> 7, evaluatorNpi |-> 222,
      startTime |-> D0 - DaySeconds, endTime |-> D0 - DaySeconds + Hour,
      daEval |-> {"DA"}, asdAdhd |-> {"ASD"}, cancelled |-> TRUE,
      locationKey |-> {S_NYC}, calendarEventId |-> {"old"}],
     [id |-> "Z9", clientId |-> 9, evaluatorNpi |-> 111,
      startTime |-> D0, endTime |-> D0 + Hour,
      daEval |-> {}, asdAdhd |-> {}, cancelled |-> TRUE,
      locationKey |-> {}, calendarEventId |-> {}]}

InitRerun ==
    /\ appts \in {{}, SeedTable}
    /\ links = {}
    /\ csv \in Exports(IndexRowPool \cup {r \in SyncRowPool : r.CANCELBYNAME # None})
    /\ gcal \in Placements({e \in EventPool : e.id \in {"e1", "e2"}})
    /\ trusted_ids \in SUBSET {"A1", "A2"}
    /\ ignored_ids = {}
    /\ npi_cache \in {("eval1@x" :> 111) @@ ("eval2@x" :> 222), ("eval1@x" :> 111)}
    /\ StartOfRun
    /\ IdleElig

\* the process is stopped inside the insert loop, between two iterations
Interrupt ==
    /\ pc = "prepared"
    /\ appointments_df # <<>>
    /\ pc' = "crashed"
    /\ UNCHANGED <<appointments_df, filtered, results, fetched, all_events, pageIdx,
                   calIdx, rowIdx, time_mismatches, missing_in_gcal, missing_npis,
                   sent, writes>>
    /\ UNCHANGED <<dbVars, inVars, eligVars>>

\* insert_appointments_with_gcal is called again: a new reporter, a new frame;
\* the database and the inputs are as they are (writes keeps the upserts of
\* the earlier runs)
RunAgain ==
    /\ pc \in {"done", "crashed"}
    /\ Len(writes) <= MaxLoggedWrites
    /\ pc' = "start"
    /\ appointments_df' = <<>>
    /\ filtered' = <<>>
    /\ results' = << >>
    /\ fetched' = {}
    /\ all_events' = <<>>
    /\ pageIdx' = 1
    /\ calIdx' = 1
    /\ rowIdx' = 1
    /\ time_mismatches' = <<>>
    /\ missing_in_gcal' = <<>>
    /\ missing_npis' = <<>>
    /\ sent' = 0
    /\ UNCHANGED writes
    /\ UNCHANGED <<dbVars, inVars, eligVars>>

\* the calendar service answers every listing, in every run
NextRerun ==
    \/ Prepare
    \/ FetchPage
    \/ MatchCalendar
    \/ ApplyResults
    \/ ReturnEmpty
    \/ InsertRow
    \/ WriteFails
    \/ Interrupt
    \/ SendReport
    \/ RunAgain

SpecRerun == InitRerun /\ [][NextRerun]_vars

\* the table before the first run
StartTable == IF \E r \in appts : r.id = "Z9" THEN SeedTable ELSE {}

\* the value of a nullable column after one upsert of p over table tbl
KeptOrSupplied(tbl, p, col) ==
    IF p[col] # {} THEN p[col]
    ELSE IF \E r \in tbl : r.id = p.id
         THEN (CHOOSE r \in tbl : r.id = p.id)[col]
         ELSE {}

\* the table one uninterrupted run over the returned frame leaves, from the
\* table before the first run: one row per written id, holding the values of
\* its write and, where the write supplies null, the value held before
UninterruptedTable ==
    LET ps == {InsertDecision(appointments_df[k], trusted_ids, npi_cache).params :
                   k \in RowsToWrite}
    IN {r \in StartTable : \A p \in ps : p.id # r.id}
       \cup {[id |-> p.id, clientId |-> p.clientId, evaluatorNpi |-> p.evaluatorNpi,
              startTime |-> p.startTime, endTime |-> p.endTime,
              cancelled |-> p.cancelled,
              daEval |-> KeptOrSupplied(StartTable, p, "daEval"),
              asdAdhd |-> KeptOrSupplied(StartTable, p, "asdAdhd"),
              locationKey |-> KeptOrSupplied(StartTable, p, "locationKey"),
              calendarEventId |-> KeptOrSupplied(StartTable, p, "calendarEventId")] :
             p \in ps}

\* C23: in a series of runs over the same inputs, each possibly interrupted in
\* its insert loop, the rows an interrupted run has written are in the table
\* with the values written, and when a run completes the table is the one a
\* single uninterrupted run would have left, however many interrupted or
\* completed runs came before.
C23_RerunAfterInterruptionConverges ==
    /\ pc = "crashed" =>
           \A k \in 1..Len(writes) : \E r \in appts :
               /\ r.id = writes[k].id
               /\ r.clientId = writes[k].clientId
               /\ r.evaluatorNpi = writes[k].evaluatorNpi
               /\ r.startTime = writes[k].startTime
    /\ pc = "done" => appts = UninterruptedTable

\* C23 witness: a run over two rows wrote A1 and was interrupted, the next run
\* wrote A1 and A2 and completed, over a table that held A1 with other values.
C23_Witness ==
    /\ pc = "done"
    /\ Len(writes) = 3
    /\ writes[1].id = "A1" /\ writes[2].id = "A1" /\ writes[3].id = "A2"
    /\ Cardinality(RowsToWrite) = 2
    /\ \E r \in appts : r.id = "Z9"

(***************************************************************************)
(* Further claims about put_appointment_in_db                              *)
(***************************************************************************)
\* the last call made for id
LastWriteOf(id) ==
    writes[CHOOSE k \in 1..Len(writes) :
               writes[k].id = id /\ \A m \in (k + 1)..Len(writes) : writes[m].id # id]

\* C24: after any sequence of upserts the table holds exactly one row for each
\* id upserted and none for another id, and the client id, evaluator id, start
\* time, end time and cancelled flag of the row are those of the last upsert
\* for its id, whatever the row held before.
C24_OneRowPerIdCoreFieldsOverwritten ==
    /\ \A r1, r2 \in appts : r1.id = r2.id => r1 = r2
    /\ {r.id : r \in appts} = WrittenIds
    /\ \A r \in appts :
           /\ r.clientId = LastWriteOf(r.id).clientId
           /\ r.evaluatorNpi = LastWriteOf(r.id).evaluatorNpi
           /\ r.startTime = LastWriteOf(r.id).startTime
           /\ r.endTime = LastWriteOf(r.id).endTime
           /\ r.cancelled = LastWriteOf(r.id).cancelled

\* C24 witness: A1 was upserted for client 55, not cancelled, then for client
\* 7 at another time, cancelled; the one row of A1 holds the second call's
\* values.
C24_Witness ==
    /\ Len(writes) >= 2
    /\ writes[1].id = "A1" /\ writes[1].clientId = 55 /\ ~writes[1].cancelled
    /\ writes[2].id = "A1" /\ writes[2].clientId = 7 /\ writes[2].cancelled
    /\ Cardinality({r \in appts : r.id = "A1"}) = 1
    /\ \E r \in appts :
           /\ r.id = "A1" /\ r.clientId = 7 /\ r.cancelled
           /\ r.startTime = D0 + DaySeconds + 9 * Hour

(***************************************************************************)
(* Further claims about the insert loop and the reports of a sync run      *)
(***************************************************************************)
\* the row was matched to an event of a calendar that has no evaluator
LookupFails(r) ==
    /\ IsMatched(r)
    /\ results[r.idx].calendar_id \notin DOMAIN npi_cache

\* the entries of the lookup-failure list for a row
LookupEntriesOf(r) ==
    {k \in 1..Len(missing_npis) :
        /\ missing_npis[k].appointment_id = r.APPOINTMENT_ID
        /\ missing_npis[k].calendar_id = results[r.idx].calendar_id}

\* C25: when a run has ended, a row matched to an event of a calendar that has
\* no evaluator was not written, trusted with an NPI of its own or not, and
\* its calendar id is in the lookup-failure list once for it; every other row
\* the insert loop has a write for was written.
C25_LookupFailureReportedRowNotWritten ==
    pc = "done" =>
        /\ \A i \in 1..Len(filtered) :
               LookupFails(filtered[i]) =>
                   /\ filtered[i].APPOINTMENT_ID \notin WrittenIds
                   /\ Cardinality(LookupEntriesOf(filtered[i])) = 1
        /\ \A k \in RowsToWrite : appointments_df[k].APPOINTMENT_ID \in WrittenIds

\* C25 witness: a run ended in which a trusted row with an NPI, matched on a
\* calendar without evaluator, was reported and not written, and a row after
\* it in the frame was written.
C25_Witness ==
    /\ pc = "done"
    /\ \E i, j \in 1..Len(appointments_df) :
           /\ i < j
           /\ appointments_df[i].APPOINTMENT_ID \in trusted_ids
           /\ appointments_df[i].NPI # {}
           /\ \E m \in 1..Len(filtered) :
                  /\ filtered[m].APPOINTMENT_ID = appointments_df[i].APPOINTMENT_ID
                  /\ LookupFails(filtered[m])
                  /\ LookupEntriesOf(filtered[m]) # {}
           /\ appointments_df[i].APPOINTMENT_ID \notin WrittenIds
           /\ appointments_df[j].APPOINTMENT_ID \in WrittenIds

(***************************************************************************)
(* Clients written by put_clients_in_db, read back by get_all_clients and  *)
(* then matched                                                            *)
(***************************************************************************)
\* sep.join(items)
RECURSIVE JoinWith(_, _)
JoinWith(items, sep) ==
    IF items = <<>> THEN <<>>
    ELSE IF Len(items) = 1 THEN items[1]
    ELSE items[1] \o <<sep>> \o JoinWith(Tail(items), sep)

\* put_clients_in_db: the row of the client table written for a data frame
\* row; a list of secondary insurances is stored as one text
StoredClient(client) ==
    LET sec == client.SECONDARY_INSURANCE_COMPANYNAME
    IN [id |-> The(client.CLIENT_ID),
        schoolDistrict |-> client.SCHOOL_DISTRICT,
        address |-> client.ADDRESS,
        dob |-> IF IsNone(client.DOB) THEN [y |-> 1900, m |-> 1, d |-> 1]
                ELSE [y |-> The(client.DOB).y, m |-> The(client.DOB).m,
                      d |-> The(client.DOB).d],
        primaryInsurance |-> client.INSURANCE_COMPANYNAME,
        secondaryInsurance |->
            IF IsNone(sec) THEN None
            ELSE IF The(sec).isList THEN Some(JoinWith(The(sec).items, "|"))
            ELSE Some(The(sec).text),
        privatePay |-> client.POLICY_PRIVATEPAY]

\* get_all_clients: the data frame row of a row of the client table
LoadedClient(row) ==
    [CLIENT_ID |-> Some(row.id),
     SCHOOL_DISTRICT |-> row.schoolDistrict,
     ADDRESS |-> row.address,
     DOB |-> Some([isStr |-> FALSE, iso |-> TRUE,
                   y |-> row.dob.y, m |-> row.dob.m, d |-> row.dob.d]),
     POLICY_PRIVATEPAY |-> row.privatePay,
     INSURANCE_COMPANYNAME |-> row.primaryInsurance,
     SECONDARY_INSURANCE_COMPANYNAME |->
         IF IsNone(row.secondaryInsurance) THEN None
         ELSE Some([isList |-> FALSE, text |-> The(row.secondaryInsurance),
                    items |-> <<>>])]

HasId(client) == ~IsNone(client.CLIENT_ID)

ShortId(client) == Len(Str(The(client.CLIENT_ID))) # 5

\* the frame get_all_clients returns after put_clients_in_db wrote the frame
\* df into an empty client table
StoredAndLoaded(df) ==
    LET kept == SelectSeq(SelectSeq(df, HasId), ShortId)
    IN [i \in 1..Len(kept) |-> LoadedClient(StoredClient(kept[i]))]

ListOf(items) == Some([isList |-> TRUE, text |-> <<>>, items |-> items])

\* clients as consolidate_by_id leaves them: the secondary insurances are a list
ListedClientPool ==
    {InsuranceClient(31, 0, None, ListOf(<<S_HUMANA, S_BCBS>>)),
     InsuranceClient(32, 0, Some(S_HUMANA), ListOf(<<S_ATC>>)),
     InsuranceClient(33, 0, None, ListOf(<<S_AETNA_ATC, S_HUMANA>>)),
     InsuranceClient(34, 1, None, ListOf(<<S_HUMANA, S_BCBS>>)),
     InsuranceClient(35, 0, Some(S_BLUE_CROSS_UP), NoSecondary),
     [CLIENT_ID |-> None, SCHOOL_DISTRICT |-> None,
      ADDRESS |-> None, DOB |-> None,
      POLICY_PRIVATEPAY |-> 0, INSURANCE_COMPANYNAME |-> None,
      SECONDARY_INSURANCE_COMPANYNAME |-> NoSecondary]}

InitRoundTrip ==
    /\ IdleSync
    /\ clients \in ClientFrames(ListedClientPool)
    /\ evaluators = EvaluatorDict
    /\ links \in SUBSET {<<31, 111>>, <<32, 111>>, <<35, 333>>}
    /\ force_ids = {}
    /\ epc = "csv"
    /\ existing_links = << >>
    /\ start_links = links
    /\ cIdx = 1
    /\ issued = <<>>
    /\ db_error = FALSE

\* the clients are written to the database and read back before the run
StoreAndReload ==
    /\ epc = "csv"
    /\ clients' = StoredAndLoaded(clients)
    /\ epc' = "start"
    /\ UNCHANGED <<evaluators, force_ids, existing_links, start_links, cIdx,
                   issued, db_error>>
    /\ UNCHANGED <<dbVars, inVars, runVars>>

\* the incremental run over the clients read back: every row has an id and a
\* date of birth that is not a text
NextRoundTrip ==
    \/ StoreAndReload
    \/ LoadLinks
    \/ LoadLinksFails
    \/ LoadMappings
    \/ LoadMappingsFails
    \/ ProcessClient
    \/ ProcessClientDeleteFails
    \/ ProcessClientInsertFails
    \/ FinishElig

SpecRoundTrip == InitRoundTrip /\ [][NextRoundTrip]_vars

\* the client of the pool with an id
ListedClient(id) == CHOOSE c \in ListedClientPool : c.CLIENT_ID = {id}

\* C26 (as claimed): for a client that is not private pay, written with a
\* list of secondary insurances and read back, every evaluator that accepts
\* one of the insurances of the list is in the insurance-eligible set.
C26_SecondaryListSurvivesRoundTrip ==
    \A k \in 1..Len(issued) :
        LET c == ListedClient(The(RowOf(issued[k]).CLIENT_ID))
        IN c.POLICY_PRIVATEPAY # 1 =>
               {n \in DOMAIN evaluators : AcceptsOneOf(c, n)}
                   \subseteq DesiredNpis(issued[k])

(***************************************************************************)
(* Further claims about series of sync runs                                *)
(***************************************************************************)
\* C27: in any series of sync runs, every upsert issued carries cancelled =
\* false, rows with a cancellation marker being dropped by the record filter,
\* and no step turns the cancelled flag of a stored appointment to true: a row
\* that is cancelled after a step was in the table, as it is, before the step.
C27_NoRunSetsCancelled ==
    [][/\ \A k \in 1..Len(writes') : ~writes'[k].cancelled
       /\ \A r \in appts' : r.cancelled => r \in appts]_vars

\* C27 witness: a run ended whose export holds a row with a cancellation
\* marker and a trusted id; the row was not written and another row was.
C27_Witness ==
    /\ pc = "done"
    /\ writes # <<>>
    /\ \E i \in 1..Len(csv) :
           /\ csv[i].CANCELBYNAME # {}
           /\ csv[i].APPOINTMENT_ID \in trusted_ids
           /\ csv[i].NPI # {}
           /\ csv[i].APPOINTMENT_ID \notin WrittenIds

(***************************************************************************)
(* Reports for trusted rows                                                *)
(***************************************************************************)
\* C28: once prepare_appointments_from_csv has returned, a trusted row that
\* passed the record filter and for which no fetched calendar yields a match
\* is in the returned frame and is reported: when some fetched calendar holds
\* an event of its client on its day (time mismatch) the time-mismatch list
\* has an entry for the row, and when none does (total miss) the
\* missing-in-calendar list has an entry for it; the report is not empty.
C28_TrustedRowKeptAndReported ==
    AfterPrepare =>
        \A i \in 1..Len(filtered) :
            LET r == filtered[i]
                carried == \E c \in fetched : Carriers(c, r) # {}
            IN (r.APPOINTMENT_ID \in trusted_ids /\ FetchedYielding(r) = {}) =>
                  /\ InFrame(r.APPOINTMENT_ID)
                  /\ has_errors(time_mismatches, missing_in_gcal, missing_npis)
                  /\ carried =>
                        \E k \in 1..Len(time_mismatches) :
                            /\ time_mismatches[k].appointment_idx = r.idx
                            /\ time_mismatches[k].appointment_id = r.APPOINTMENT_ID
                  /\ ~carried =>
                        \E k \in MissingOf(r.APPOINTMENT_ID) :
                            /\ missing_in_gcal[k].client_id = r.CLIENT_ID
                            /\ missing_in_gcal[k].start_time = r.STARTTIME

\* C28 witness: a run ended with every calendar listed in which one trusted
\* row was a total miss and another trusted row a time mismatch; both were
\* reported, and the total miss was written with the evaluator of the export.
C28_Witness ==
    /\ pc = "done"
    /\ fetched = Calendars
    /\ \E i, j \in 1..Len(filtered) :
           /\ filtered[i].APPOINTMENT_ID \in trusted_ids
           /\ filtered[j].APPOINTMENT_ID \in trusted_ids
           /\ NoEventOfClient(filtered[i])
           /\ MissingOf(filtered[i].APPOINTMENT_ID) # {}
           /\ filtered[i].APPOINTMENT_ID \in WrittenIds
           /\ IsMismatch(filtered[j])
           /\ InFrame(filtered[j].APPOINTMENT_ID)

\* C29: in any series of sync runs, no step removes the row of an id from
\* the appointment table, and a row that a step changes is the row of the id
\* of the upsert issued in that step; the rows of all other ids, such as
\* those the export no longer holds or the filter, the matcher or the
\* ignored ids drop, stay as they were.
C29_RunOnlyUpserts ==
    [][\A r \in appts :
          /\ \E q \in appts' : q.id = r.id
          /\ r \notin appts' =>
                /\ Len(writes') = Len(writes) + 1
                /\ writes'[Len(writes')].id = r.id]_vars

\* C29 witness: a run over a table that held two rows ended after writing a
\* row of another id; the export holds a row with the id of the first stored
\* row, which was not written, and both stored rows are as they were.
C29_Witness ==
    /\ pc = "done"
    /\ writes # <<>>
    /\ "A1" \notin WrittenIds
    /\ \E i \in 1..Len(csv) : csv[i].APPOINTMENT_ID = "A1"
    /\ SeedTable \subseteq appts
    /\ appts # SeedTable

(***************************************************************************)
(* Force mode for clients the client data does not hold                    *)
(***************************************************************************)
\* C30: in a force run, a client id of the requested set for which the data
\* frame has no row never gets a link inserted, whatever statement raises,
\* and when the run has ended and no database statement raised it has no
\* link at all: those it had before the run are deleted.
C30_AbsentForcedClientEndsUnlinked ==
    force_ids # {} =>
        \A id \in ForcedClients :
            RowsOf(id) = {} =>
                /\ \A l \in links : l[1] = id => l \in start_links
                /\ \A k \in 1..Len(issued) : issued[k].client # Str(id)
                /\ (epc = "done" /\ ~db_error) => LinkedNpis(links, id) = {}

\* C30 witness: a force run for client 55 ended without error over a data
\* frame that holds other clients but not 55; the two links 55 had are gone,
\* no statement was issued for 55, and the links of client 12 are untouched.
C30_Witness ==
    /\ force_ids = {S_55_SP}
    /\ epc = "done"
    /\ ~db_error
    /\ clients # <<>>
    /\ RowsOf(55) = {}
    /\ LinkedNpis(start_links, 55) = {111, 222}
    /\ LinkedNpis(links, 55) = {}
    /\ LinkedNpis(links, 12) = LinkedNpis(start_links, 12)
    /\ LinkedNpis(links, 12) # {}

====
